---- MODULE Spec2Model ----
(***************************************************************************)
(* Model of the SSI (Sell Side Indicator) acquisition pipeline of the      *)
(* investment-contrarian repository: the month-key utility, the monthly    *)
(* cache store (spikes/ssi_cache.py), the value extractor's validation     *)
(* (indicators/utils/ssi_gpt_extractor.py) and the pipeline orchestrator   *)
(* (indicators/ssi.py).                                                    *)
(*                                                                         *)
(* Representation.                                                         *)
(*   - A Python str that the code parses or formats (month labels such as  *)
(*     "May 2024", storage keys such as "2024-05") is a sequence of        *)
(*     one-character strings, so that strptime/strftime/replace/lower are  *)
(*     computed character by character.  Opaque strings (urls, contexts)   *)
(*     are TLA+ strings.                                                   *)
(*   - A date with day = 1 is its month ordinal year * 12 + (month - 1).   *)
(*   - An optional number is <<>> (None) or <<v>>; SSI levels are held in  *)
(*     tenths of a percent (55.7 is 557), so 40 <= value <= 80 reads       *)
(*     400 <= v <= 800.                                                    *)
(*   - A dict is a function; a key the dict lacks is outside its DOMAIN.   *)
(*   - datetime.now().isoformat() is the stamp Now; every stamp already on *)
(*     disk when the model starts is OldStamp.                             *)
(***************************************************************************)
EXTENDS Integers, Sequences, FiniteSets, TLC

VARIABLES
    today,  \* date.today().replace(day=1), as a month ordinal
    file,   \* cache/ssi_cache.json: its kind, and for a JSON document its content
    out,    \* the most recent call: its name, inputs, the calls it made, its result
    runs,   \* the SSICache objects in memory, one per pipeline run in progress:
            \* how far the run got (pc) and its self.cache_data
    subscribers  \* data/subscribers.json: its kind, and for a JSON document its content

vars == <<today, file, out, runs, subscribers>>

(***************************************************************************)
(* Bounds of the model.                                                    *)
(***************************************************************************)
\* fetch_data passes 12 to generate_target_months and _generate_month_dates;
\* the model runs the same code with a shorter window.
WindowSize == 1
\* Largest window size handed to generate_target_months on its own.
MaxWindow == 3
\* Number of consecutive "today" months tried for the month-key utility.
ClockSpan == 30
\* How far beyond each end of the valid range the values handed to the
\* extractor's validation go, in tenths of a percent.
Margin == 12
\* Largest N of the "N days ago" strings handed to the search client's date
\* conversion, and the number of consecutive current dates tried for it.
MaxAgo == 12
DaySpan == 70

(***************************************************************************)
(* Characters and strings.                                                 *)
(***************************************************************************)
Digits == <<"0", "1", "2", "3", "4", "5", "6", "7", "8", "9">>

UpperCase == <<"A", "B", "C", "D", "E", "F", "G", "H", "I", "J", "K", "L", "M",
               "N", "O", "P", "Q", "R", "S", "T", "U", "V", "W", "X", "Y", "Z">>

LowerCase == <<"a", "b", "c", "d", "e", "f", "g", "h", "i", "j", "k", "l", "m",
               "n", "o", "p", "q", "r", "s", "t", "u", "v", "w", "x", "y", "z">>

\* The characters in code point order: str comparison (list.sort on dates).
CodePoints == <<" ", ",", "-", ".">> \o Digits \o <<"@">> \o UpperCase \o LowerCase

Chars == {CodePoints[i] : i \in 1..Len(CodePoints)}

OrdOf == [c \in Chars |-> CHOOSE i \in 1..Len(CodePoints) : CodePoints[i] = c]

ord(c) == OrdOf[c]

DigitSet == {Digits[i] : i \in 1..10}

IsDigit(c) == c \in DigitSet

DigitValueOf == [c \in DigitSet |-> (CHOOSE i \in 1..10 : Digits[i] = c) - 1]

DigitValue(c) == DigitValueOf[c]

LowerOf ==
    [c \in Chars |->
        IF \E j \in 1..26 : UpperCase[j] = c
        THEN LowerCase[CHOOSE j \in 1..26 : UpperCase[j] = c]
        ELSE c]

\* str.lower()
lower(s) == [i \in 1..Len(s) |-> LowerOf[s[i]]]

\* str.replace(old, new) for one-character old and new
replace(s, old, new) == [i \in 1..Len(s) |-> IF s[i] = old THEN new ELSE s[i]]

\* a < b for str
RECURSIVE StrLess(_, _)
StrLess(a, b) ==
    IF b = <<>> THEN FALSE
    ELSE IF a = <<>> THEN TRUE
    ELSE IF a[1] # b[1] THEN ord(a[1]) < ord(b[1])
    ELSE StrLess(Tail(a), Tail(b))

(***************************************************************************)
(* Dates: strftime and strptime for the two formats the code uses.         *)
(***************************************************************************)
MonthNames == <<
    <<"J", "a", "n", "u", "a", "r", "y">>,
    <<"F", "e", "b", "r", "u", "a", "r", "y">>,
    <<"M", "a", "r", "c", "h">>,
    <<"A", "p", "r", "i", "l">>,
    <<"M", "a", "y">>,
    <<"J", "u", "n", "e">>,
    <<"J", "u", "l", "y">>,
    <<"A", "u", "g", "u", "s", "t">>,
    <<"S", "e", "p", "t", "e", "m", "b", "e", "r">>,
    <<"O", "c", "t", "o", "b", "e", "r">>,
    <<"N", "o", "v", "e", "m", "b", "e", "r">>,
    <<"D", "e", "c", "e", "m", "b", "e", "r">> >>

DateYear(d) == d \div 12

DateMonth(d) == (d % 12) + 1

MakeDate(y, m) == y * 12 + (m - 1)

\* %Y: the year in four digits
FormatYear(y) ==
    << Digits[((y \div 1000) % 10) + 1], Digits[((y \div 100) % 10) + 1],
       Digits[((y \div 10) % 10) + 1], Digits[(y % 10) + 1] >>

\* %m: the month in two digits, zero padded
FormatMonth(m) == << Digits[(m \div 10) + 1], Digits[(m % 10) + 1] >>

\* d.strftime("%B %Y")
strftime_B_Y(d) == MonthNames[DateMonth(d)] \o <<" ">> \o FormatYear(DateYear(d))

\* d.strftime("%Y-%m")
strftime_Y_m(d) == FormatYear(DateYear(d)) \o <<"-">> \o FormatMonth(DateMonth(d))

LowerMonthNames == [m \in 1..12 |-> lower(MonthNames[m])]

\* %B matches a full month name, ignoring case
NameMatches(s, m) ==
    /\ Len(s) >= Len(MonthNames[m])
    /\ lower(SubSeq(s, 1, Len(MonthNames[m]))) = LowerMonthNames[m]

\* what follows the month name: one or more blanks, then exactly four digits
IsYearTail(r) ==
    \E k \in 1..Len(r) :
        /\ Len(r) = k + 4
        /\ \A i \in 1..k : r[i] = " "
        /\ \A i \in (k + 1)..(k + 4) : IsDigit(r[i])

ParseYear(r) ==
    LET n == Len(r) IN
    DigitValue(r[n - 3]) * 1000 + DigitValue(r[n - 2]) * 100
        + DigitValue(r[n - 1]) * 10 + DigitValue(r[n])

\* datetime.strptime(s, "%B %Y") succeeds (no ValueError); year 0 is no datetime
strptime_ok(s) ==
    \E m \in 1..12 :
        /\ NameMatches(s, m)
        /\ IsYearTail(SubSeq(s, Len(MonthNames[m]) + 1, Len(s)))
        /\ ParseYear(SubSeq(s, Len(MonthNames[m]) + 1, Len(s))) >= 1

\* datetime.strptime(s, "%B %Y"), as a month ordinal
strptime_B_Y(s) ==
    LET m == CHOOSE mm \in 1..12 :
                 /\ NameMatches(s, mm)
                 /\ IsYearTail(SubSeq(s, Len(MonthNames[mm]) + 1, Len(s)))
    IN MakeDate(ParseYear(SubSeq(s, Len(MonthNames[m]) + 1, Len(s))), m)

\* _month_to_key with the month written without its leading zero
month_to_key_unpadded(month_str) ==
    IF strptime_ok(month_str)
    THEN LET d == strptime_B_Y(month_str)
             mm == FormatMonth(DateMonth(d))
         IN FormatYear(DateYear(d)) \o <<"-">> \o (IF mm[1] = "0" THEN <<mm[2]>> ELSE mm)
    ELSE lower(replace(month_str, " ", "-"))

\* SSICache._month_to_key: 'May 2024' to '2024-05', with the slug fallback
_month_to_key(month_str) ==
    IF strptime_ok(month_str)
    THEN strftime_Y_m(strptime_B_Y(month_str))
    ELSE lower(replace(month_str, " ", "-"))

\* months, as generate_target_months builds the list before sorting it:
\* the current month, the next month, then num_months past months
RECURSIVE PastMonths(_, _)
PastMonths(current, n) ==
    IF n = 0 THEN <<>> ELSE <<current - 1>> \o PastMonths(current - 1, n - 1)

Range(s) == {s[i] : i \in 1..Len(s)}

\* a list of dates sorted in place: its elements in ascending order, each as
\* often as it occurs
RECURSIVE SortList(_)
SortList(s) ==
    IF s = <<>> THEN <<>>
    ELSE LET lo == CHOOSE x \in Range(s) : \A y \in Range(s) : x <= y
             at == CHOOSE i \in 1..Len(s) : s[i] = lo
         IN <<lo>> \o SortList(SubSeq(s, 1, at - 1) \o SubSeq(s, at + 1, Len(s)))

\* generate_target_months without months.sort()
generate_target_months_unsorted(day1, num_months) ==
    LET months == <<day1, day1 + 1>> \o PastMonths(day1, num_months)
    IN [i \in 1..Len(months) |-> strftime_B_Y(months[i])]

\* generate_target_months(num_months)
generate_target_months(day1, num_months) ==
    LET months == <<day1, day1 + 1>> \o PastMonths(day1, num_months)
        sorted == SortList(months)
    IN [i \in 1..Len(sorted) |-> strftime_B_Y(sorted[i])]

\* _generate_month_dates(num_months): the last n months, most recent first
_generate_month_dates(day1, num_months) == PastMonths(day1, num_months)

(***************************************************************************)
(* Dicts, None, stamps.                                                    *)
(***************************************************************************)
None == <<>>

Now == "now"

OldStamp == "old"

SourceTag == "serpapi+trafilatura+gpt4o"

EmptyDict == [k \in {} |-> None]

\* d.get(f, default)
Get(d, f, default) == IF f \in DOMAIN d THEN d[f] ELSE default

\* d[k] = v
Put(d, k, v) == [x \in (DOMAIN d) \cup {k} |-> IF x = k THEN v ELSE d[x]]

(***************************************************************************)
(* SSICache (spikes/ssi_cache.py).  cd is self.cache_data.                 *)
(***************************************************************************)
FreshCache ==
    [last_updated |-> Now, monthly_data |-> EmptyDict, metadata |-> SourceTag]

\* SSICache._load_cache.  The kinds of file: "json" (a JSON object, doc),
\* "missing", "corrupt" (text that json.load rejects with JSONDecodeError:
\* empty, truncated), "undecodable" (bytes that are no UTF-8 text: read()
\* raises UnicodeDecodeError), "not_object" (JSON that is no object, such
\* as []: data.get raises AttributeError), "unreadable" (open() raises an
\* OSError other than FileNotFoundError).  Only JSONDecodeError and
\* FileNotFoundError are caught.
_load_cache(f) ==
    CASE f.kind = "json"       -> [raised |-> FALSE, data |-> f.doc]
      [] f.kind = "missing"    -> [raised |-> FALSE, data |-> FreshCache]
      [] f.kind = "corrupt"    -> [raised |-> FALSE, data |-> FreshCache]
      [] OTHER                 -> [raised |-> TRUE, data |-> FreshCache]

RequiredFields == {"level", "date", "url", "confidence", "context"}

\* _is_valid_cache_entry without the test that level is not None
is_valid_cache_entry_fields_only(data) ==
    \A field \in RequiredFields : field \in DOMAIN data

\* SSICache._is_valid_cache_entry
_is_valid_cache_entry(data) ==
    /\ \A field \in RequiredFields : field \in DOMAIN data
    /\ Get(data, "level", None) # None

\* get_cached_months counting every stored key, valid record or not
get_cached_months_every_key(cd) ==
    DOMAIN Get(cd, "monthly_data", EmptyDict)

\* SSICache.get_cached_months
get_cached_months(cd) ==
    LET monthly_data == Get(cd, "monthly_data", EmptyDict)
    IN {month_key \in DOMAIN monthly_data :
            _is_valid_cache_entry(monthly_data[month_key])}

\* get_missing_months looking the label itself up among the cached keys
get_missing_months_by_label(cd, target_months) ==
    LET cached_months == get_cached_months(cd)
        Missing(month) == month \notin cached_months
    IN SelectSeq(target_months, Missing)

\* SSICache.get_missing_months
get_missing_months(cd, target_months) ==
    LET cached_months == get_cached_months(cd)
        Missing(month) == _month_to_key(month) \notin cached_months
    IN SelectSeq(target_months, Missing)

\* the entry update_cache stores under month_key
StoredEntry(entry, month_key) ==
    [level      |-> Get(entry, "level", None),
     date       |-> month_key,
     url        |-> Get(entry, "url", ""),
     confidence |-> Get(entry, "confidence", "medium"),
     context    |-> Get(entry, "context", ""),
     reasoning  |-> Get(entry, "reasoning", ""),
     source     |-> Get(entry, "source", SourceTag),
     updated_at |-> Now]

\* the loop of update_cache; an entry whose date is None or "" is skipped
RECURSIVE MergeEntries(_, _)
MergeEntries(monthly_data, new_data) ==
    IF new_data = <<>> THEN monthly_data
    ELSE LET entry == Head(new_data)
             month_key == Get(entry, "date", None)
         IN MergeEntries(
                IF month_key # <<>>
                THEN Put(monthly_data, month_key, StoredEntry(entry, month_key))
                ELSE monthly_data,
                Tail(new_data))

\* update_cache keeping the entries the cache already holds
update_cache_keep_existing(cd, new_data) ==
    IF new_data = <<>> THEN cd
    ELSE LET monthly_data == Get(cd, "monthly_data", EmptyDict)
             merged == MergeEntries(monthly_data, new_data)
         IN Put(Put(cd, "monthly_data",
                    [k \in DOMAIN merged |->
                        IF k \in DOMAIN monthly_data THEN monthly_data[k] ELSE merged[k]]),
                "last_updated", Now)

\* update_cache patching a record the cache already holds: only level and
\* updated_at of the stored record are overwritten
update_cache_patching_fields(cd, new_data) ==
    IF new_data = <<>> THEN cd
    ELSE LET monthly_data == Get(cd, "monthly_data", EmptyDict)
             merged == MergeEntries(monthly_data, new_data)
             Patched(old, new) ==
                 [f \in (DOMAIN old) \cup (DOMAIN new) |->
                     IF f \in DOMAIN new /\ (f \in {"level", "updated_at"} \/ f \notin DOMAIN old)
                     THEN new[f] ELSE old[f]]
         IN Put(Put(cd, "monthly_data",
                    [k \in DOMAIN merged |->
                        IF k \in DOMAIN monthly_data
                        THEN Patched(monthly_data[k], merged[k]) ELSE merged[k]]),
                "last_updated", Now)

\* SSICache.update_cache
update_cache(cd, new_data) ==
    IF new_data = <<>> THEN cd
    ELSE LET monthly_data == Get(cd, "monthly_data", EmptyDict)
         IN Put(Put(cd, "monthly_data", MergeEntries(monthly_data, new_data)),
                "last_updated", Now)

\* What the file system does with one save: "ok"; "makedirs_fails" (raised
\* before the try); "open_fails" (open(..., 'w') raises, the file is as it
\* was); "write_fails" (json.dump raises after open truncated the file).
SaveOutcomes == {"ok", "makedirs_fails", "open_fails", "write_fails"}

\* save_cache keeping the months that the file holds and the object lacks
save_cache_merging(cd, f, outcome) ==
    LET on_disk == IF f.kind = "json" THEN Get(f.doc, "monthly_data", EmptyDict)
                   ELSE EmptyDict
        mine == Get(cd, "monthly_data", EmptyDict)
        both == [k \in (DOMAIN on_disk) \cup (DOMAIN mine) |->
                    IF k \in DOMAIN mine THEN mine[k] ELSE on_disk[k]]
    IN CASE outcome = "makedirs_fails" -> [raised |-> TRUE, file |-> f]
         [] outcome = "open_fails" \/ f.kind = "unreadable"
                                       -> [raised |-> FALSE, file |-> f]
         [] outcome = "write_fails"    -> [raised |-> FALSE, file |-> [kind |-> "corrupt"]]
         [] OTHER                      -> [raised |-> FALSE,
                                          file |-> [kind |-> "json",
                                                    doc |-> Put(cd, "monthly_data", both)]]

\* SSICache.save_cache
save_cache(cd, f, outcome) ==
    CASE outcome = "makedirs_fails" -> [raised |-> TRUE, file |-> f]
      [] outcome = "open_fails" \/ f.kind = "unreadable"
                                    -> [raised |-> FALSE, file |-> f]
      [] outcome = "write_fails"    -> [raised |-> FALSE, file |-> [kind |-> "corrupt"]]
      [] OTHER                      -> [raised |-> FALSE,
                                       file |-> [kind |-> "json", doc |-> cd]]

\* cached_results.sort(key=lambda x: x.get("date", ""))
RECURSIVE SortByDate(_)
SortByDate(S) ==
    IF S = {} THEN <<>>
    ELSE LET lo == CHOOSE x \in S :
                       \A y \in S : ~StrLess(Get(y, "date", <<>>), Get(x, "date", <<>>))
         IN <<lo>> \o SortByDate(S \ {lo})

\* SSICache.get_cached_data
get_cached_data(cd) ==
    LET monthly_data == Get(cd, "monthly_data", EmptyDict)
    IN SortByDate({monthly_data[month_key] : month_key \in
                      {k \in DOMAIN monthly_data : _is_valid_cache_entry(monthly_data[k])}})

(***************************************************************************)
(* SSIExtractor (indicators/utils/ssi_gpt_extractor.py).                   *)
(***************************************************************************)
\* the plausible range of the indicator, in percent
ValidMin == 40

ValidMax == 80

\* a percentage in the model's unit (tenths of a percent)
Percent(p) == p * 10

\* _validate_extraction without the upper end of the range
validate_extraction_no_upper(extraction) ==
    LET value == Get(extraction, "value", None)
        month == Get(extraction, "month", None)
    IN IF month = <<>> THEN FALSE
       ELSE IF value = None THEN FALSE
       ELSE IF ~(Percent(ValidMin) <= value[1]) THEN FALSE
       ELSE TRUE

\* _validate_extraction with the ends of the range excluded
validate_extraction_exclusive(extraction) ==
    LET value == Get(extraction, "value", None)
        month == Get(extraction, "month", None)
    IN IF month = <<>> THEN FALSE
       ELSE IF value = None THEN FALSE
       ELSE IF ~(Percent(ValidMin) < value[1] /\ value[1] < Percent(ValidMax)) THEN FALSE
       ELSE TRUE

\* SSIExtractor._validate_extraction
_validate_extraction(extraction) ==
    LET value == Get(extraction, "value", None)
        month == Get(extraction, "month", None)
    IN IF month = <<>> THEN FALSE
       ELSE IF value = None THEN FALSE
       ELSE IF ~(Percent(ValidMin) <= value[1] /\ value[1] <= Percent(ValidMax)) THEN FALSE
       ELSE TRUE

\* SSIExtractor._get_discard_reason
_get_discard_reason(result) ==
    LET month == Get(result, "month", None)
        value == Get(result, "value", None)
    IN IF month = <<>> THEN "Missing month"
       ELSE IF value = None THEN "Missing value"
       ELSE IF ~(Percent(ValidMin) <= value[1] /\ value[1] <= Percent(ValidMax))
            THEN "Value outside valid range (40-80%)"
       ELSE "Unknown validation error"

\* An entry of a results list is a record of its keys; a JSON value that is
\* not an object (a string, a number) is the record [json |-> its type].
\* isinstance(result, dict)
IsDict(result) == "json" \notin DOMAIN result

\* A numeric value is <<v>>, null is None, a JSON string s is <<"str", s>>.
\* 40 <= value <= 80 raises TypeError for a string; _validate_extraction
\* gets there when month is truthy and value is not None
ComparisonRaises(extraction) ==
    LET value == Get(extraction, "value", None)
        month == Get(extraction, "month", None)
    IN month # <<>> /\ value # None /\ Len(value) = 2

\* the inner loop of extract_ssi_values over one article's results_list:
\* acc is [all_extractions, discarded_results, ...]; an entry that is no
\* dict is passed over, an entry whose validation raises ends the loop with
\* acc.raised set
RECURSIVE ProcessResults(_, _, _)
ProcessResults(results_list, article, acc) ==
    IF results_list = <<>> THEN acc
    ELSE LET head == Head(results_list)
             result == Put(Put(Put(head, "source_url", article.link),
                               "source_title", article.title),
                           "source_date", article.date)
         IN IF ~IsDict(head) THEN ProcessResults(Tail(results_list), article, acc)
            ELSE IF ComparisonRaises(result) THEN [acc EXCEPT !.raised = TRUE]
            ELSE ProcessResults(Tail(results_list), article,
                IF _validate_extraction(result)
                THEN [acc EXCEPT !.all_extractions = Append(@, result)]
                ELSE [acc EXCEPT !.discarded_results = Append(@,
                         [month        |-> Get(result, "month", None),
                          value        |-> Get(result, "value", None),
                          reason       |-> _get_discard_reason(result),
                          source_url   |-> article.link,
                          source_title |-> article.title])])

\* the loop of extract_ssi_values stopping at the first article whose
\* handling raises
RECURSIVE process_articles_aborting(_, _, _)
process_articles_aborting(scraped_articles, replies, acc) ==
    IF scraped_articles = <<>> THEN acc
    ELSE LET article == Head(scraped_articles)
             reply == replies[article.link]
             asked == [acc EXCEPT !.requests = Append(@, article.link)]
             done == IF reply.kind = "results"
                     THEN ProcessResults(reply.results, article, asked)
                     ELSE asked
         IN IF reply.kind \in {"exception", "not_json"} THEN asked
            ELSE IF done.raised THEN [done EXCEPT !.raised = FALSE]
            ELSE process_articles_aborting(Tail(scraped_articles), replies,
                     [done EXCEPT !.total_processed = @ + 1])

\* the loop of extract_ssi_values over the articles.  replies[link] is what
\* _call_gpt4o does for that article: "exception" (the request raises),
\* "not_json" (json.loads raises JSONDecodeError), "no_results" (a JSON
\* object without "results") or "results" (with the list).  acc.requests
\* are the articles a request was made for.
RECURSIVE ProcessArticles(_, _, _)
ProcessArticles(scraped_articles, replies, acc) ==
    IF scraped_articles = <<>> THEN acc
    ELSE LET article == Head(scraped_articles)
             reply == replies[article.link]
             asked == [acc EXCEPT !.requests = Append(@, article.link)]
             after ==
                 IF reply.kind \in {"exception", "not_json"} THEN asked
                 ELSE LET done == IF reply.kind = "results"
                                  THEN ProcessResults(reply.results, article, asked)
                                  ELSE asked
                      IN IF done.raised THEN [done EXCEPT !.raised = FALSE]
                         ELSE [done EXCEPT !.total_processed = @ + 1]
         IN ProcessArticles(Tail(scraped_articles), replies, after)

\* the final conversion of extract_ssi_values
ValidExtraction(extraction) ==
    [month        |-> extraction.month,
     level        |-> extraction.value,
     confidence   |-> Get(extraction, "confidence", "medium"),
     context      |-> Get(extraction, "context", ""),
     reasoning    |-> Get(extraction, "reasoning", ""),
     source_url   |-> Get(extraction, "source_url", ""),
     source_title |-> Get(extraction, "source_title", ""),
     source_date  |-> Get(extraction, "source_date", "")]

\* SSIExtractor.extract_ssi_values: (extractions, total_processed, discarded)
extract_ssi_values(scraped_articles, replies) ==
    LET acc == ProcessArticles(scraped_articles, replies,
                   [all_extractions |-> <<>>, discarded_results |-> <<>>,
                    total_processed |-> 0, raised |-> FALSE, requests |-> <<>>])
    IN [extractions |-> [i \in 1..Len(acc.all_extractions) |->
                            ValidExtraction(acc.all_extractions[i])],
        total_processed |-> acc.total_processed,
        discarded_results |-> acc.discarded_results,
        requests |-> acc.requests]

(***************************************************************************)
(* SSISearcher._convert_relative_dates (spikes/ssi_search.py).  A datetime *)
(* is the number of its day, counted from 1970-01-01 (the time of day      *)
(* plays no part in the conversion).                                       *)
(***************************************************************************)
\* date(y, m, d) as a day number (proleptic Gregorian calendar)
MakeDay(y, m, d) ==
    LET yy == IF m <= 2 THEN y - 1 ELSE y
        era == yy \div 400
        yoe == yy - era * 400
        doy == (153 * (IF m > 2 THEN m - 3 ELSE m + 9) + 2) \div 5 + d - 1
        doe == yoe * 365 + yoe \div 4 - yoe \div 100 + doy
    IN era * 146097 + doe - 719468

\* the year, month and day of a day number
CivilDate(z) ==
    LET zz == z + 719468
        era == zz \div 146097
        doe == zz - era * 146097
        yoe == (doe - doe \div 1460 + doe \div 36524 - doe \div 146096) \div 365
        doy == doe - (365 * yoe + yoe \div 4 - yoe \div 100)
        mp == (5 * doy + 2) \div 153
        m == IF mp < 10 THEN mp + 3 ELSE mp - 9
    IN [year |-> yoe + era * 400 + (IF m <= 2 THEN 1 ELSE 0), month |-> m,
        day |-> doy - (153 * mp + 2) \div 5 + 1]

\* absolute_date.strftime("%b %d, %Y"): "Jun 01, 2025"
strftime_b_d_Y(z) ==
    LET c == CivilDate(z)
    IN SubSeq(MonthNames[c.month], 1, 3) \o <<" ">> \o FormatMonth(c.day)
       \o <<",", " ">> \o FormatYear(c.year)

\* the first index at or after i of s that holds no digit / no blank
RECURSIVE SkipDigits(_, _)
SkipDigits(s, i) == IF i <= Len(s) /\ IsDigit(s[i]) THEN SkipDigits(s, i + 1) ELSE i

RECURSIVE SkipSpaces(_, _)
SkipSpaces(s, i) == IF i <= Len(s) /\ s[i] = " " THEN SkipSpaces(s, i + 1) ELSE i

\* s holds w from index i on
HasAt(s, i, w) == i + Len(w) - 1 <= Len(s) /\ \A k \in 1..Len(w) : s[i + k - 1] = w[k]

\* int(digits)
RECURSIVE int(_)
int(digits) ==
    IF digits = <<>> THEN 0
    ELSE 10 * int(SubSeq(digits, 1, Len(digits) - 1)) + DigitValue(digits[Len(digits)])

\* the pattern (\d+)\s+<word>(?:s)?\s+ago matches s from index i on
MatchesAgoAt(s, i, word) ==
    LET j == SkipDigits(s, i)
        k == SkipSpaces(s, j)
        a == k + Len(word)
        b == IF a <= Len(s) /\ s[a] = "s" THEN a + 1 ELSE a
        c == SkipSpaces(s, b)
    IN /\ j > i /\ k > j /\ HasAt(s, k, word)
       /\ c > b /\ HasAt(s, c, <<"a", "g", "o">>)

\* re.search(r"(\d+)\s+<word>(?:s)?\s+ago", s): <<>> without a match,
\* <<int(match.group(1))>> for the leftmost match
search_ago(s, word) ==
    LET starts == {i \in 1..Len(s) : MatchesAgoAt(s, i, word)}
        first == CHOOSE i \in starts : \A j \in starts : i <= j
    IN IF starts = {} THEN <<>>
       ELSE <<int(SubSeq(s, first, SkipDigits(s, first) - 1))>>

\* re.search(word, s) for a literal word
search_word(s, word) == \E i \in 1..Len(s) : HasAt(s, i, word)

DayWord == <<"d", "a", "y">>

WeekWord == <<"w", "e", "e", "k">>

MonthWord == <<"m", "o", "n", "t", "h">>

YesterdayWord == <<"y", "e", "s", "t", "e", "r", "d", "a", "y">>

TodayWord == <<"t", "o", "d", "a", "y">>

\* the conversion with "N weeks ago" taken as N days
absolute_date_weeks_as_days(date_str, current_date) ==
    LET low == lower(date_str)
        days == search_ago(low, DayWord)
        weeks == search_ago(low, WeekWord)
        months == search_ago(low, MonthWord)
    IN IF days # <<>> THEN <<current_date - days[1]>>
       ELSE IF weeks # <<>> THEN <<current_date - weeks[1]>>
       ELSE IF months # <<>> THEN <<current_date - months[1] * 30>>
       ELSE IF search_word(low, YesterdayWord) THEN <<current_date - 1>>
       ELSE IF search_word(low, TodayWord) THEN <<current_date>>
       ELSE <<>>

\* the body of the loop over relative_patterns for one date string: <<>> if
\* no pattern matches, else <<absolute_date>>
absolute_date(date_str, current_date) ==
    LET low == lower(date_str)
        days == search_ago(low, DayWord)
        weeks == search_ago(low, WeekWord)
        months == search_ago(low, MonthWord)
    IN IF days # <<>> THEN <<current_date - days[1]>>
       ELSE IF weeks # <<>> THEN <<current_date - 7 * weeks[1]>>
       ELSE IF months # <<>> THEN <<current_date - months[1] * 30>>
       ELSE IF search_word(low, YesterdayWord) THEN <<current_date - 1>>
       ELSE IF search_word(low, TodayWord) THEN <<current_date>>
       ELSE <<>>

\* one turn of the loop of _convert_relative_dates: the result afterwards
convert_result(result, current_date) ==
    LET date_str == Get(result, "date", <<>>)
        converted == absolute_date(date_str, current_date)
    IN IF date_str = <<>> \/ converted = <<>> THEN result
       ELSE Put(Put(result, "date", strftime_b_d_Y(converted[1])),
                "original_date", date_str)

\* SSISearcher._convert_relative_dates, with current_date = datetime.now()
_convert_relative_dates(results, current_date) ==
    [i \in 1..Len(results) |-> convert_result(results[i], current_date)]

(***************************************************************************)
(* The orchestrator (indicators/ssi.py).                                   *)
(***************************************************************************)
\* _create_final_output: month_dates maps the label of each of the last
\* WindowSize months to its date; an extraction whose month is no such label
\* is dropped
RECURSIVE _create_final_output(_, _)
_create_final_output(extractions, day1) ==
    IF extractions = <<>> THEN <<>>
    ELSE LET result == Head(extractions)
             month_dates == Range(_generate_month_dates(day1, WindowSize))
             hits == {m \in month_dates : strftime_B_Y(m) = result.month}
             rest == _create_final_output(Tail(extractions), day1)
         IN IF hits = {} THEN rest
            ELSE LET target_date == CHOOSE m \in hits : TRUE
                 IN << [level      |-> result.level,
                        date       |-> strftime_Y_m(target_date),
                        url        |-> Get(result, "source_url", ""),
                        source     |-> SourceTag,
                        confidence |-> Get(result, "confidence", "medium"),
                        context    |-> Get(result, "context", ""),
                        reasoning  |-> Get(result, "reasoning", "")] >> \o rest

\* os.getenv(name): None when the variable is unset
getenv(environ, name) == IF name \in DOMAIN environ THEN <<environ[name]>> ELSE None

\* "key is None" in place of "not key": an empty value passes
NotKeyNoneOnly(key) == key = None

\* "not key" for the result of os.getenv
NotKey(key) == key = None \/ key = <<"">>

NoneResult == [kind |-> "None"]

ListResult(data) == [kind |-> "list", data |-> data]

\* what fetch_data leaves behind: its return value, the file, the calls it
\* made in order, whether it built the cache object and that object's
\* cache_data at the end, the missing months it computed, what it printed
FetchOutcome(ret, f, calls, loaded, cd, missing, log) ==
    [ret |-> ret, file |-> f, calls |-> calls, loaded |-> loaded, cache |-> cd,
     missing |-> missing, log |-> log]

\* scraper.scrape_articles as the orchestrator sees it: the results whose
\* page was downloaded and extracted, in order
scrape_articles(search_results, scraped) ==
    LET Succeeds(result) == result.link \in scraped
    IN SelectSeq(search_results, Succeeds)

\* fetch_data without the early return on an empty extraction list: the
\* merge and the save then run after every extraction stage
fetch_data_saving_without_extractions(f, environ, day1, world) ==
    LET serp_key == getenv(environ, "SERPAPI_KEY")
        openai_key == getenv(environ, "OPENAI_API_KEY")
        target_months == generate_target_months(day1, WindowSize)
        load == _load_cache(f)
        cd == load.data
        missing_months == get_missing_months(cd, target_months)
        c1 == <<"SSICache", "get_missing_months">>
        c2 == c1 \o <<"SSISearcher", "InvestingScraper", "SSIExtractor",
                      "search_investing_ssi_articles">>
        search_results == world.search
        c3 == c2 \o <<"scrape_articles">>
        scraped_articles == scrape_articles(search_results, world.scraped)
        c5 == c3 \o <<"extract_ssi_values", "update_cache", "save_cache">>
        extracted == extract_ssi_values(scraped_articles, world.replies)
        new_output == _create_final_output(extracted.extractions, day1)
        cd2 == update_cache(cd, new_output)
        saved == save_cache(cd2, f, world.save)
    IN IF NotKey(serp_key) \/ NotKey(openai_key)
       THEN FetchOutcome(NoneResult, f, <<>>, FALSE, FreshCache, <<>>,
                         "Missing required environment variables")
       ELSE IF load.raised
       THEN FetchOutcome(NoneResult, f, <<"SSICache">>, FALSE, FreshCache, <<>>,
                         "Error fetching SSI data")
       ELSE IF missing_months = <<>>
       THEN FetchOutcome(ListResult(get_cached_data(cd)), f,
                         c1 \o <<"get_cached_data">>, TRUE, cd, missing_months,
                         "All SSI target months already cached")
       ELSE IF search_results = <<>>
       THEN FetchOutcome(NoneResult, f, c2, TRUE, cd, missing_months,
                         "No search results collected from SerpAPI")
       ELSE IF scraped_articles = <<>>
       THEN FetchOutcome(NoneResult, f, c3, TRUE, cd, missing_months,
                         "No articles successfully scraped")
       ELSE IF saved.raised
       THEN FetchOutcome(NoneResult, saved.file, c5, TRUE, cd2, missing_months,
                         "Error fetching SSI data")
       ELSE FetchOutcome(ListResult(get_cached_data(cd2)), saved.file,
                         c5 \o <<"get_cached_data">>, TRUE, cd2, missing_months,
                         "GPT-4o found SSI values")

\* fetch_data.  world is what the network and the file system do during the
\* run: world.search (the search client's result list; world.search_error
\* tells whether a page request failed on the way), world.scraped (the
\* links whose scrape succeeds), world.replies (the model's reply per link),
\* world.save (the outcome of the save).
fetch_data(f, environ, day1, world) ==
    LET serp_key == getenv(environ, "SERPAPI_KEY")
        openai_key == getenv(environ, "OPENAI_API_KEY")
        target_months == generate_target_months(day1, WindowSize)
        load == _load_cache(f)
        cd == load.data
        missing_months == get_missing_months(cd, target_months)
        c1 == <<"SSICache", "get_missing_months">>
        c2 == c1 \o <<"SSISearcher", "InvestingScraper", "SSIExtractor",
                      "search_investing_ssi_articles">>
        search_results == world.search
        c3 == c2 \o <<"scrape_articles">>
        scraped_articles == scrape_articles(search_results, world.scraped)
        c4 == c3 \o <<"extract_ssi_values">>
        extracted == extract_ssi_values(scraped_articles, world.replies)
        new_output == _create_final_output(extracted.extractions, day1)
        c5 == c4 \o <<"update_cache", "save_cache">>
        cd2 == update_cache(cd, new_output)
        saved == save_cache(cd2, f, world.save)
    IN IF NotKey(serp_key) \/ NotKey(openai_key)
       THEN FetchOutcome(NoneResult, f, <<>>, FALSE, FreshCache, <<>>,
                         "Missing required environment variables")
       ELSE IF load.raised
       THEN FetchOutcome(NoneResult, f, <<"SSICache">>, FALSE, FreshCache, <<>>,
                         "Error fetching SSI data")
       ELSE IF missing_months = <<>>
       THEN FetchOutcome(ListResult(get_cached_data(cd)), f,
                         c1 \o <<"get_cached_data">>, TRUE, cd, missing_months,
                         "All SSI target months already cached")
       ELSE IF search_results = <<>>
       THEN FetchOutcome(NoneResult, f, c2, TRUE, cd, missing_months,
                         "No search results collected from SerpAPI")
       ELSE IF scraped_articles = <<>>
       THEN FetchOutcome(NoneResult, f, c3, TRUE, cd, missing_months,
                         "No articles successfully scraped")
       ELSE IF extracted.extractions = <<>>
       THEN FetchOutcome(ListResult(get_cached_data(cd)), f,
                         c4 \o <<"get_cached_data">>, TRUE, cd, missing_months,
                         "GPT-4o extraction failed or found no results")
       ELSE IF saved.raised
       THEN FetchOutcome(NoneResult, saved.file, c5, TRUE, cd2, missing_months,
                         "Error fetching SSI data")
       ELSE FetchOutcome(ListResult(get_cached_data(cd2)), saved.file,
                         c5 \o <<"get_cached_data">>, TRUE, cd2, missing_months,
                         "GPT-4o found SSI values")

\* cache_data(data): data is a list of entries (a single entry is wrapped)
cache_data(f, data, outcome) ==
    LET load == _load_cache(f)
        cd2 == update_cache(load.data, data)
        saved == save_cache(cd2, f, outcome)
    IN IF outcome = "makedirs_fails"
       THEN [ret |-> FALSE, file |-> f, loaded |-> FALSE, cache |-> FreshCache,
             calls |-> <<>>]
       ELSE IF load.raised
       THEN [ret |-> FALSE, file |-> f, loaded |-> FALSE, cache |-> FreshCache,
             calls |-> <<"SSICache">>]
       ELSE [ret |-> TRUE, file |-> saved.file, loaded |-> TRUE, cache |-> cd2,
             calls |-> <<"SSICache", "update_cache", "save_cache">>]

\* ssi._is_valid_cache_entry (the module's own copy)
ssi_is_valid_cache_entry(data) ==
    /\ \A field \in RequiredFields : field \in DOMAIN data
    /\ Get(data, "level", None) # None

\* ssi.get_cached_data(): reads the file itself; FileNotFoundError and
\* JSONDecodeError give the error dict, another OSError is not caught
ssi_get_cached_data(f) ==
    CASE f.kind = "json" ->
            LET monthly_data == Get(f.doc, "monthly_data", EmptyDict)
            IN [kind |-> "list",
                data |-> SortByDate({monthly_data[k] : k \in
                            {kk \in DOMAIN monthly_data :
                                ssi_is_valid_cache_entry(monthly_data[kk])}})]
      [] f.kind \in {"missing", "corrupt"} ->
            [kind |-> "error", data |-> <<>>]
      [] OTHER -> [kind |-> "raised", data |-> <<>>]

(***************************************************************************)
(* Inputs: cache files found on disk, environments, worlds, data.          *)
(***************************************************************************)
\* the months the files and replies of the model speak about: one month
\* before the window, the window, the current and the next month
KnownMonths(day1) == (day1 - WindowSize - 1)..(day1 + 1)

\* a complete record as an earlier run or a hand-written file holds it
GoodEntry(key) ==
    [level |-> <<557>>, date |-> key, url |-> "u0", confidence |-> "high",
     context |-> "c0"]

\* a record without its url
NoUrlEntry(key) == [level |-> <<557>>, date |-> key, confidence |-> "high", context |-> "c0"]

\* a record whose level is null
NullLevelEntry(key) ==
    [level |-> None, date |-> key, url |-> "u0", confidence |-> "high", context |-> "c0"]

\* what a file found on disk may hold for month d: nothing ("absent") or
\* one of these records
EntryChoices(d, day1) ==
    CASE d = day1 - 1 -> {"absent", "good", "no_url"}
      [] d = day1     -> {"absent", "good", "null_level"}
      [] OTHER        -> {"absent", "good"}

EntryOf(choice, key) ==
    CASE choice = "good"       -> GoodEntry(key)
      [] choice = "no_url"     -> NoUrlEntry(key)
      [] choice = "null_level" -> NullLevelEntry(key)

\* the monthly_data mappings a file found on disk may hold
InitialMonthlyData(day1) ==
    LET choices == {c \in [KnownMonths(day1) -> {"absent", "good", "no_url", "null_level"}] :
                       \A d \in KnownMonths(day1) : c[d] \in EntryChoices(d, day1)}
        Keys(c) == {strftime_Y_m(d) : d \in {dd \in KnownMonths(day1) : c[dd] # "absent"}}
        DateOf(key) == CHOOSE d \in KnownMonths(day1) : strftime_Y_m(d) = key
    IN {[key \in Keys(c) |-> EntryOf(c[DateOf(key)], key)] : c \in choices}

\* the cache files the program may find when it starts
InitialFiles(day1) ==
    {[kind |-> "missing"], [kind |-> "corrupt"], [kind |-> "unreadable"],
     [kind |-> "undecodable"], [kind |-> "not_object"],
     [kind |-> "json", doc |-> [last_updated |-> OldStamp]]}
    \cup {[kind |-> "json",
           doc |-> [last_updated |-> OldStamp, monthly_data |-> md,
                    metadata |-> SourceTag]] : md \in InitialMonthlyData(day1)}

Environs ==
    {[SERPAPI_KEY |-> "k1", OPENAI_API_KEY |-> "k2"],
     [OPENAI_API_KEY |-> "k2"],
     [SERPAPI_KEY |-> "", OPENAI_API_KEY |-> "k2"],
     [SERPAPI_KEY |-> "k1"],
     [SERPAPI_KEY |-> "k1", OPENAI_API_KEY |-> ""],
     [k \in {} |-> ""]}

Article1 == [title |-> "t1", link |-> "u1", date |-> "Jul 5, 2025"]

Article2 == [title |-> "t2", link |-> "u2", date |-> "Jul 6, 2025"]

\* an entry of a model reply: month d, value v (tenths of a percent)
ReplyEntry(d, v, confidence) ==
    [month |-> strftime_B_Y(d), value |-> <<v>>, confidence |-> confidence,
     context |-> "ctx", reasoning |-> "why"]

Results(list) == [kind |-> "results", results |-> list]

\* replies that yield at least one valid extraction
ValidReplies(day1) ==
    {Results(<<ReplyEntry(day1 - 1, 557, "high")>>),
     Results(<<[month |-> strftime_B_Y(day1 - 1), value |-> <<400>>]>>),
     Results(<<ReplyEntry(day1, 557, "high")>>),
     Results(<<ReplyEntry(day1 + 1, 800, "low")>>),
     Results(<<ReplyEntry(day1 - WindowSize - 1, 557, "high")>>),
     Results(<<ReplyEntry(day1 - 1, 600, "high"), ReplyEntry(day1 - 1, 610, "low")>>),
     Results(<<ReplyEntry(day1 - 1, 801, "high"), ReplyEntry(day1 - WindowSize, 800, "high")>>)}

\* replies that yield none
EmptyReplies(day1) ==
    {Results(<<>>),
     Results(<<ReplyEntry(day1 - 1, 801, "high"), ReplyEntry(day1 - 1, 399, "high"),
               [value |-> <<557>>, confidence |-> "high"],
               [month |-> strftime_B_Y(day1 - 1), value |-> None]>>),
     [kind |-> "exception"], [kind |-> "not_json"], [kind |-> "no_results"]}

\* search_error: a page request of the search client raised (it logs the
\* error and returns the results of the pages before)
World(search, scraped, replies, save) ==
    [search |-> search, search_error |-> FALSE, scraped |-> scraped,
     replies |-> replies, save |-> save]

OneReply(reply) == [link \in {"u1"} |-> reply]

TwoReplies(r1, r2) == [link \in {"u1", "u2"} |-> IF link = "u1" THEN r1 ELSE r2]

\* the worlds a run of fetch_data may meet
Worlds(day1) ==
    {World(<<>>, {}, OneReply(Results(<<>>)), "ok"),
     [World(<<>>, {}, OneReply(Results(<<>>)), "ok") EXCEPT !.search_error = TRUE],
     World(<<Article1>>, {}, OneReply(Results(<<>>)), "ok"),
     World(<<Article1, Article2>>, {"u2"},
           TwoReplies(Results(<<>>), Results(<<ReplyEntry(day1 - 1, 557, "high")>>)), "ok"),
     World(<<Article1, Article2>>, {"u1", "u2"},
           TwoReplies([kind |-> "exception"], Results(<<ReplyEntry(day1 - 1, 557, "high")>>)),
           "ok"),
     World(<<Article1, Article2>>, {"u1", "u2"},
           TwoReplies(Results(<<ReplyEntry(day1 - 1, 557, "high")>>),
                      Results(<<ReplyEntry(day1 - 1, 610, "low")>>)), "ok")}
    \cup {World(<<Article1>>, {"u1"}, OneReply(r), "ok") : r \in EmptyReplies(day1)}
    \cup {World(<<Article1>>, {"u1"}, OneReply(r), save) :
             r \in ValidReplies(day1), save \in SaveOutcomes}

\* entries handed to cache_data
DataEntries(day1) ==
    LET prev == strftime_Y_m(day1 - 1)
        cur == strftime_Y_m(day1)
    IN [plain  |-> [level |-> <<557>>, date |-> prev, url |-> "u1",
                    confidence |-> "high", context |-> "c1"],
        high   |-> [level |-> <<850>>, date |-> prev, url |-> "u2", confidence |-> "low",
                    context |-> "c2", reasoning |-> "r2"],
        bare   |-> [date |-> cur, url |-> "u1"],
        nodate |-> [level |-> <<600>>, url |-> "u1"]]

\* the lists handed to cache_data
DataLists(day1) ==
    LET e == DataEntries(day1)
    IN {<<>>, <<e.plain>>, <<e.high>>, <<e.bare>>, <<e.nodate>>,
        <<e.plain, e.high>>, <<e.high, e.plain>>, <<e.nodate, e.bare, e.plain>>}

(***************************************************************************)
(* The state machine of the orchestrator module.                           *)
(***************************************************************************)
Idle == [op |-> "none"]

\* the month the pipeline is run in: December 2024, so that the window
\* spans a change of year
RunMonths == {MakeDate(2024, 12)}

Init ==
    /\ today \in RunMonths
    /\ file \in InitialFiles(today)
    /\ out = Idle
    /\ runs = <<>>
    /\ subscribers = [kind |-> "missing"]

CredentialsSet(environ) ==
    ~(NotKey(getenv(environ, "SERPAPI_KEY")) \/ NotKey(getenv(environ, "OPENAI_API_KEY")))

\* one call of fetch_data()
FetchData(environ, world) ==
    LET r == fetch_data(file, environ, today, world)
    IN /\ file' = r.file
       /\ out' = [op |-> "fetch_data", environ |-> environ, world |-> world,
                  pre |-> file, ret |-> r.ret, calls |-> r.calls,
                  loaded |-> r.loaded, cache |-> r.cache, missing |-> r.missing,
                  log |-> r.log]
       /\ UNCHANGED <<today, runs, subscribers>>

\* one call of cache_data(data)
CacheData(data, outcome) ==
    LET r == cache_data(file, data, outcome)
    IN /\ file' = r.file
       /\ out' = [op |-> "cache_data", data |-> data, save |-> outcome, pre |-> file,
                  ret |-> r.ret, calls |-> r.calls, loaded |-> r.loaded,
                  cache |-> r.cache]
       /\ UNCHANGED <<today, runs, subscribers>>

\* one call of ssi.get_cached_data()
GetCachedData ==
    /\ out' = [op |-> "get_cached_data", pre |-> file, ret |-> ssi_get_cached_data(file)]
    /\ UNCHANGED <<today, file, runs, subscribers>>

\* the caller takes the result; the next call starts from here
Return ==
    /\ out' = Idle
    /\ UNCHANGED <<today, file, runs, subscribers>>

\* a run without credentials consults no world: a world without search
\* results is recorded for it
NoWorld == World(<<>>, {}, OneReply(Results(<<>>)), "ok")

Next ==
    \/ /\ out = Idle
       /\ \/ \E environ \in Environs, world \in Worlds(today) :
                /\ CredentialsSet(environ) \/ world = NoWorld
                /\ FetchData(environ, world)
          \/ \E data \in DataLists(today), outcome \in SaveOutcomes :
                CacheData(data, outcome)
          \/ GetCachedData
    \/ /\ out # Idle
       /\ Return

Spec == Init /\ [][Next]_vars

(***************************************************************************)
(* The month-key utility on its own: generate_target_months and            *)
(* _month_to_key applied to drawn inputs.                                  *)
(***************************************************************************)
FirstMonth == MakeDate(2023, 11)

ClockMonths == FirstMonth..(FirstMonth + ClockSpan - 1)

\* strings handed to _month_to_key: the labels of the months around today
\* as strftime writes them, the same in lower case and with two blanks,
\* and strings that are no month label
MonthStrings(day1) ==
    LET labels == {strftime_B_Y(d) : d \in (day1 - MaxWindow)..(day1 + 1)}
    IN labels
       \cup {lower(strftime_B_Y(day1))}
       \cup {MonthNames[DateMonth(day1)] \o <<" ", " ">> \o FormatYear(DateYear(day1))}
       \cup {<<"Q", "1", " ", "2", "0", "2", "5">>, strftime_Y_m(day1),
             <<"M", "a", "y", " ", "0", "0", "0", "0">>, <<"M", "a", "y", " ", "2", "4">>}

InitMonths ==
    /\ today \in ClockMonths
    /\ file = [kind |-> "missing"]
    /\ out = Idle
    /\ runs = <<>>
    /\ subscribers = [kind |-> "missing"]

\* one call of generate_target_months(num_months)
GenerateTargetMonths(num_months) ==
    /\ out' = [op |-> "generate_target_months", num_months |-> num_months,
               ret |-> generate_target_months(today, num_months)]
    /\ UNCHANGED <<today, file, runs, subscribers>>

\* one call of SSICache._month_to_key(month_str)
MonthToKey(month_str) ==
    /\ out' = [op |-> "_month_to_key", month_str |-> month_str,
               ret |-> _month_to_key(month_str)]
    /\ UNCHANGED <<today, file, runs, subscribers>>

NextMonths ==
    \/ /\ out = Idle
       /\ \/ \E num_months \in 0..MaxWindow : GenerateTargetMonths(num_months)
          \/ \E month_str \in MonthStrings(today) : MonthToKey(month_str)
    \/ /\ out # Idle
       /\ Return

SpecMonths == InitMonths /\ [][NextMonths]_vars

(***************************************************************************)
(* SSICache objects in memory.  Each pipeline run (fetch_data, cache_data, *)
(* the command-line pipeline) constructs its own SSICache, which loads the *)
(* file once; the run then asks for the missing months, merges and saves.  *)
(* runs[r] is the object of run r.                                         *)
(***************************************************************************)
\* a method call on the object: its result and self.cache_data after it.
\* get_missing_months and get_cached_months assign nothing to self.
SSICache_get_missing_months_marking(cd, target_months) ==
    LET missing == get_missing_months(cd, target_months)
        monthly_data == Get(cd, "monthly_data", EmptyDict)
        keys == {_month_to_key(missing[i]) : i \in 1..Len(missing)}
    IN [ret |-> missing,
        cache_data |-> Put(cd, "monthly_data",
                           [k \in (DOMAIN monthly_data) \cup keys |->
                               IF k \in keys THEN [date |-> k] ELSE monthly_data[k]])]

SSICache_get_missing_months(cd, target_months) ==
    [ret |-> get_missing_months(cd, target_months), cache_data |-> cd]

\* a run that has not constructed its SSICache yet
NewRun ==
    [pc |-> "start", cache_data |-> EmptyDict, asked |-> <<>>, merged |-> {},
     wrote |-> FALSE]

\* the target lists a caller hands to get_missing_months
TargetLists(day1) ==
    {generate_target_months(day1, WindowSize), generate_target_months(day1, 0)}

\* the lists a run hands to update_cache: what _create_final_output yields
\* for extractions of the month before today, and what callers of cache_data
\* pass for the current month
MergeLists(day1) ==
    LET e == DataEntries(day1)
    IN {<<>>, <<e.plain>>, <<e.plain, e.high>>, <<e.bare>>,
        <<[e.plain EXCEPT !.date = strftime_Y_m(day1)]>>}

\* the keys update_cache stores for a list
MergedKeys(new_data) ==
    {new_data[i].date : i \in {j \in 1..Len(new_data) : "date" \in DOMAIN new_data[j]}}

\* cache = SSICache(CACHE_PATH)
Construct(r) ==
    LET load == _load_cache(file)
    IN /\ runs[r].pc = "start"
       /\ runs' = [runs EXCEPT ![r].pc = IF load.raised THEN "failed" ELSE "loaded",
                               ![r].cache_data = IF load.raised THEN EmptyDict ELSE load.data]
       /\ out' = [op |-> "SSICache", run |-> r, pre |-> file, raised |-> load.raised]
       /\ UNCHANGED <<today, file, subscribers>>

\* cache.get_missing_months(target_months)
GetMissingMonths(r, target_months) ==
    LET call == SSICache_get_missing_months(runs[r].cache_data, target_months)
    IN /\ runs[r].pc \in {"loaded", "updated"}
       /\ runs' = [runs EXCEPT ![r].cache_data = call.cache_data,
                               ![r].asked = <<[target_months |-> target_months,
                                               ret |-> call.ret]>>]
       /\ out' = [op |-> "get_missing_months", run |-> r,
                  target_months |-> target_months, ret |-> call.ret,
                  asked |-> runs[r].asked, before |-> runs[r].cache_data,
                  after |-> call.cache_data]
       /\ UNCHANGED <<today, file, subscribers>>

\* cache.update_cache(new_data)
UpdateCache(r, new_data) ==
    /\ runs[r].pc = "loaded"
    /\ runs' = [runs EXCEPT ![r].pc = "updated",
                            ![r].cache_data = update_cache(@, new_data),
                            ![r].asked = <<>>,
                            ![r].merged = MergedKeys(new_data)]
    /\ out' = [op |-> "update_cache", run |-> r, new_data |-> new_data,
               before |-> runs[r].cache_data]
    /\ UNCHANGED <<today, file, subscribers>>

\* cache.save_cache()
SaveCache(r, outcome) ==
    LET saved == save_cache(runs[r].cache_data, file, outcome)
    IN /\ runs[r].pc = "updated"
       /\ runs' = [runs EXCEPT ![r].pc = IF saved.raised THEN "failed" ELSE "saved",
                               ![r].wrote = (saved.file.kind = "json" /\ outcome = "ok")]
       /\ file' = saved.file
       /\ out' = [op |-> "save_cache", run |-> r, outcome |-> outcome, pre |-> file,
                  raised |-> saved.raised, before |-> runs[r].cache_data]
       /\ UNCHANGED <<today, subscribers>>

NextRuns ==
    \E r \in DOMAIN runs :
        \/ Construct(r)
        \/ \E target_months \in TargetLists(today) : GetMissingMonths(r, target_months)
        \/ \E new_data \in MergeLists(today) : UpdateCache(r, new_data)
        \/ \E outcome \in SaveOutcomes : SaveCache(r, outcome)

\* one run, on any file
InitCache ==
    /\ today \in RunMonths
    /\ file \in InitialFiles(today)
    /\ out = Idle
    /\ runs = <<NewRun>>
    /\ subscribers = [kind |-> "missing"]

SpecCache == InitCache /\ [][NextRuns]_vars

\* the files two overlapping runs may start from
SharedFiles(day1) ==
    {[kind |-> "missing"],
     [kind |-> "json",
      doc |-> [last_updated |-> OldStamp,
               monthly_data |-> [k \in {strftime_Y_m(day1 + 1)} |-> GoodEntry(k)],
               metadata |-> SourceTag]]}

\* two runs on the same file, their steps interleaved in any order
InitRuns ==
    /\ today \in RunMonths
    /\ file \in SharedFiles(today)
    /\ out = Idle
    /\ runs = <<NewRun, NewRun>>
    /\ subscribers = [kind |-> "missing"]

SpecRuns == InitRuns /\ [][NextRuns]_vars

(***************************************************************************)
(* The extractor's validation on its own: extract_ssi_values applied to    *)
(* one scraped article whose model reply holds one result.                 *)
(***************************************************************************)
ValueChoices == (Percent(ValidMin) - Margin)..(Percent(ValidMax) + Margin)

\* results a model reply may hold: a month with each value around the valid
\* range, a value without month or with an empty month, a month without
\* value or with a null value
ModelResults(day1) ==
    LET label == strftime_B_Y(day1 - 1)
    IN {[month |-> label, value |-> <<v>>, confidence |-> "high"] : v \in ValueChoices}
       \cup {[value |-> <<v>>] : v \in {Percent(ValidMin), Percent(ValidMax)}}
       \cup {[month |-> <<>>, value |-> <<Percent(ValidMin)>>],
             [month |-> label, value |-> None], [month |-> label]}

InitExtract ==
    /\ today \in RunMonths
    /\ file = [kind |-> "missing"]
    /\ out = Idle
    /\ runs = <<>>
    /\ subscribers = [kind |-> "missing"]

\* extractor.extract_ssi_values([article], target_months)
ExtractValues(result) ==
    /\ out' = [op |-> "extract_ssi_values", result |-> result,
               ret |-> extract_ssi_values(<<Article1>>, OneReply(Results(<<result>>)))]
    /\ UNCHANGED <<today, file, runs, subscribers>>

\* what the model answers for one article of a batch
BatchReplies(day1) ==
    LET label == strftime_B_Y(day1 - 1)
        good == [month |-> label, value |-> <<557>>, confidence |-> "high"]
        high == [month |-> label, value |-> <<801>>]
    IN {[kind |-> "exception"], [kind |-> "not_json"], [kind |-> "no_results"],
        Results(<<>>), Results(<<good>>), Results(<<high, good>>),
        Results(<<[value |-> <<600>>], [month |-> label, value |-> None], good>>),
        Results(<<good, [month |-> label, value |-> <<"str", "55.7">>], good>>),
        Results(<<[json |-> "string"], good>>)}

\* extractor.extract_ssi_values(scraped_articles, target_months)
ExtractBatch(scraped_articles, replies) ==
    /\ out' = [op |-> "extract_batch", scraped_articles |-> scraped_articles,
               replies |-> replies,
               ret |-> extract_ssi_values(scraped_articles, replies)]
    /\ UNCHANGED <<today, file, runs, subscribers>>

NextExtract ==
    \/ \E result \in ModelResults(today) : ExtractValues(result)
    \/ \E scraped_articles \in {<<>>, <<Article1>>, <<Article1, Article2>>,
                                <<Article2, Article1>>},
          replies \in [{"u1", "u2"} -> BatchReplies(today)] :
           ExtractBatch(scraped_articles, replies)

SpecExtract == InitExtract /\ [][NextExtract]_vars

(***************************************************************************)
(* The search client's date conversion on its own.                         *)
(***************************************************************************)
\* str(n) for 0 <= n < 100
DecimalOf(n) ==
    IF n < 10 THEN <<Digits[n + 1]>> ELSE <<Digits[(n \div 10) + 1], Digits[(n % 10) + 1]>>

\* "3 days ago", "1 week ago"
AgoString(n, word, plural) ==
    DecimalOf(n) \o <<" ">> \o word \o (IF plural THEN <<"s">> ELSE <<>>)
    \o <<" ", "a", "g", "o">>

RelativeStrings ==
    {AgoString(n, word, plural) :
        n \in 1..MaxAgo, word \in {DayWord, WeekWord, MonthWord}, plural \in BOOLEAN}

\* date strings that match none of the patterns
PlainStrings ==
    {<<"J", "u", "l", " ", "5", ",", " ", "2", "0", "2", "5">>, <<"3", " ", "h", "o", "u", "r", "s", " ", "a", "g", "o">>, <<"d", "a", "y", "s", " ", "a", "g", "o">>, <<"3", " ", "d", "a", "y", "s", "a", "g", "o">>}

\* the date strings of search results: relative ones, the same capitalised
\* and with two blanks, the two day names, dates, others
DateStrings ==
    RelativeStrings \cup PlainStrings
    \cup {YesterdayWord, TodayWord, <<"Y", "e", "s", "t", "e", "r", "d", "a", "y">>, <<"T", "o", "d", "a", "y">>, <<"3", " ", " ", "D", "a", "y", "s", " ", "A", "g", "o">>, <<>>}

FirstDay == MakeDay(2023, 12, 25)

\* the current dates tried: a span across the end of a year and a leap day,
\* and 2025-06-15
ClockDays == FirstDay..(FirstDay + DaySpan - 1) \cup {MakeDay(2025, 6, 15)}

\* search results as SerpAPI returns them: with a date string or without
SearchResults ==
    {<<[title |-> "t1", link |-> "u1", date |-> date_str]>> : date_str \in DateStrings}
    \cup {<<[title |-> "t1", link |-> "u1"]>>,
          <<[title |-> "t1", link |-> "u1", date |-> AgoString(3, DayWord, TRUE)],
            [title |-> "t2", link |-> "u2", date |-> <<"J", "u", "l", " ", "5", ",", " ", "2", "0", "2", "5">>],
            [title |-> "t3", link |-> "u3", date |-> AgoString(2, WeekWord, TRUE)]>>}

InitDates ==
    /\ today \in RunMonths
    /\ file = [kind |-> "missing"]
    /\ out = Idle
    /\ runs = <<>>
    /\ subscribers = [kind |-> "missing"]

\* self._convert_relative_dates(unique_results) at the time current_date
ConvertRelativeDates(results, current_date) ==
    /\ out' = [op |-> "_convert_relative_dates", current_date |-> current_date,
               results |-> results,
               ret |-> _convert_relative_dates(results, current_date)]
    /\ UNCHANGED <<today, file, runs, subscribers>>

NextDates ==
    \/ /\ out = Idle
       /\ \E results \in SearchResults, current_date \in ClockDays :
              ConvertRelativeDates(results, current_date)
    \/ /\ out # Idle
       /\ Return

SpecDates == InitDates /\ [][NextDates]_vars

(***************************************************************************)
(* Subscribers (subscribers.py).  f is data/subscribers.json: "missing",   *)
(* "json" (with its document) or "corrupt" (text json.load rejects).       *)
(***************************************************************************)
Letters == {UpperCase[i] : i \in 1..26} \cup {LowerCase[i] : i \in 1..26}

\* [a-zA-Z0-9._%+-] and [a-zA-Z0-9.-], as far as the model's characters go
LocalChars == Letters \cup DigitSet \cup {".", "-"}

DomainChars == Letters \cup DigitSet \cup {".", "-"}

\* EMAIL_REGEX.match(email):
\* ^[a-zA-Z0-9._%+-]+@[a-zA-Z0-9.-]+\.[a-zA-Z]{2,}$
EMAIL_REGEX_match(email) ==
    \E i, j \in 1..Len(email) :
        /\ email[i] = "@" /\ i > 1
        /\ \A k \in 1..(i - 1) : email[k] \in LocalChars
        /\ j > i + 1 /\ email[j] = "."
        /\ \A k \in (i + 1)..(j - 1) : email[k] \in DomainChars
        /\ Len(email) - j >= 2
        /\ \A k \in (j + 1)..Len(email) : email[k] \in Letters

RECURSIVE lstrip(_)
lstrip(s) == IF s # <<>> /\ Head(s) = " " THEN lstrip(Tail(s)) ELSE s

RECURSIVE rstrip(_)
rstrip(s) ==
    IF s # <<>> /\ s[Len(s)] = " " THEN rstrip(SubSeq(s, 1, Len(s) - 1)) ELSE s

\* str.strip()
strip(s) == rstrip(lstrip(s))

\* validate_email keeping the letter case of the address
validate_email_keep_case(email) ==
    LET stripped == strip(email)
    IN IF email = <<>>
       THEN [valid |-> FALSE, message |-> "Email address is required"]
       ELSE IF stripped = <<>>
       THEN [valid |-> FALSE, message |-> "Email address cannot be empty"]
       ELSE IF Len(stripped) > 254
       THEN [valid |-> FALSE, message |-> "Email address is too long"]
       ELSE IF ~EMAIL_REGEX_match(stripped)
       THEN [valid |-> FALSE, message |-> "Invalid email address format"]
       ELSE [valid |-> TRUE, message |-> "Email is valid", email |-> stripped]

\* validate_email
validate_email(email) ==
    LET stripped == lower(strip(email))
    IN IF email = <<>>
       THEN [valid |-> FALSE, message |-> "Email address is required"]
       ELSE IF stripped = <<>>
       THEN [valid |-> FALSE, message |-> "Email address cannot be empty"]
       ELSE IF Len(stripped) > 254
       THEN [valid |-> FALSE, message |-> "Email address is too long"]
       ELSE IF ~EMAIL_REGEX_match(stripped)
       THEN [valid |-> FALSE, message |-> "Invalid email address format"]
       ELSE [valid |-> TRUE, message |-> "Email is valid", email |-> stripped]

\* What the file system does with one write of subscribers.json: "ok";
\* "open_fails" (open(..., 'w') raises, the file is as it was);
\* "write_fails" (json.dump raises after open truncated the file).
WriteOutcomes == {"ok", "open_fails", "write_fails"}

\* _save_subscribers: IOError is caught and gives False
_save_subscribers(data, f, outcome) ==
    CASE outcome = "open_fails"  -> [ok |-> FALSE, file |-> f]
      [] outcome = "write_fails" -> [ok |-> FALSE, file |-> [kind |-> "corrupt"]]
      [] OTHER -> [ok |-> TRUE,
                   file |-> [kind |-> "json", doc |-> Put(data, "updated_at", Now)]]

\* the structure _load_subscribers starts from
InitialData ==
    [version |-> "1.0", created_at |-> Now, updated_at |-> Now, subscribers |-> <<>>]

\* _load_subscribers: the data, and the file afterwards (a missing file is
\* created with the initial structure)
_load_subscribers(f, create) ==
    CASE f.kind = "missing" ->
            [data |-> InitialData, file |-> _save_subscribers(InitialData, f, create).file]
      [] f.kind = "json"    -> [data |-> f.doc, file |-> f]
      [] OTHER              -> [data |-> InitialData, file |-> f]

\* add_subscriber.  world.create and world.save are the outcomes of the
\* write that creates a missing file and of the write of the new list.
add_subscriber(f, email, world) ==
    LET validation == validate_email(email)
        load == _load_subscribers(f, world.create)
        data == load.data
        existing_emails ==
            [i \in 1..Len(data.subscribers) |-> data.subscribers[i].email]
        subscriber ==
            [email |-> validation.email, subscribed_at |-> Now, active |-> TRUE,
             subscription_source |-> "web_dashboard"]
        saved == _save_subscribers(
                     [data EXCEPT !.subscribers = Append(@, subscriber)],
                     load.file, world.save)
    IN IF ~validation.valid
       THEN [ret |-> [success |-> FALSE, message |-> validation.message], file |-> f]
       ELSE IF validation.email \in Range(existing_emails)
       THEN [ret |-> [success |-> FALSE,
                      message |-> "Email address is already subscribed"],
             file |-> load.file]
       ELSE IF saved.ok
       THEN [ret |-> [success |-> TRUE,
                      message |-> "Successfully subscribed to daily alerts",
                      email |-> validation.email],
             file |-> saved.file]
       ELSE [ret |-> [success |-> FALSE, message |-> "Failed to save subscription"],
             file |-> saved.file]

\* remove_subscriber
remove_subscriber(f, email, world) ==
    LET validation == validate_email(email)
        load == _load_subscribers(f, world.create)
        data == load.data
        Other(sub) == sub.email # validation.email
        kept == SelectSeq(data.subscribers, Other)
        saved == _save_subscribers([data EXCEPT !.subscribers = kept],
                                   load.file, world.save)
    IN IF ~validation.valid
       THEN [ret |-> [success |-> FALSE, message |-> validation.message], file |-> f]
       ELSE IF Len(kept) = Len(data.subscribers)
       THEN [ret |-> [success |-> FALSE,
                      message |-> "Email address not found in subscribers"],
             file |-> load.file]
       ELSE IF saved.ok
       THEN [ret |-> [success |-> TRUE,
                      message |-> "Successfully unsubscribed from daily alerts",
                      email |-> validation.email],
             file |-> saved.file]
       ELSE [ret |-> [success |-> FALSE, message |-> "Failed to save unsubscription"],
             file |-> saved.file]

\* get_all_subscribers
get_all_subscribers(f, create) ==
    LET load == _load_subscribers(f, create)
        Active(sub) == Get(sub, "active", TRUE)
        active == SelectSeq(load.data.subscribers, Active)
    IN [ret |-> [i \in 1..Len(active) |-> active[i].email], file |-> load.file]

\* the addresses callers pass: two addresses, one of them also in capitals
\* and with blanks around it, and strings that are no address
Emails ==
    {<<"a", "@", "x", ".", "i", "o">>, <<"A", "@", "X", ".", "i", "o">>, <<" ", "a", "@", "x", ".", "i", "o", " ">>, <<"b", "@", "x", ".", "i", "o">>, <<"a", "x", ".", "i", "o">>, <<"a", "@", "x">>, <<>>, <<" ">>}

WriteWorlds == [create : WriteOutcomes, save : WriteOutcomes]

\* the addresses whose most recent successful call was an add, so far
AddedSoFar == IF out.op \in {"add_subscriber", "remove_subscriber", "get_all_subscribers"}
              THEN out.added ELSE {}

InitSubscribers ==
    /\ today \in RunMonths
    /\ file = [kind |-> "missing"]
    /\ out = Idle
    /\ runs = <<>>
    /\ subscribers = [kind |-> "missing"]

AddSubscriber(email, world) ==
    LET r == add_subscriber(subscribers, email, world)
    IN /\ subscribers' = r.file
       /\ out' = [op |-> "add_subscriber", email |-> email, world |-> world,
                  pre |-> subscribers, ret |-> r.ret,
                  added |-> IF r.ret.success THEN AddedSoFar \cup {r.ret.email}
                            ELSE AddedSoFar]
       /\ UNCHANGED <<today, file, runs>>

RemoveSubscriber(email, world) ==
    LET r == remove_subscriber(subscribers, email, world)
    IN /\ subscribers' = r.file
       /\ out' = [op |-> "remove_subscriber", email |-> email, world |-> world,
                  pre |-> subscribers, ret |-> r.ret,
                  added |-> IF r.ret.success THEN AddedSoFar \ {r.ret.email}
                            ELSE AddedSoFar]
       /\ UNCHANGED <<today, file, runs>>

GetAllSubscribers(create) ==
    LET r == get_all_subscribers(subscribers, create)
    IN /\ subscribers' = r.file
       /\ out' = [op |-> "get_all_subscribers", create |-> create,
                  pre |-> subscribers, ret |-> r.ret, added |-> AddedSoFar]
       /\ UNCHANGED <<today, file, runs>>

NextSubscribers ==
    \/ \E email \in Emails, world \in WriteWorlds : AddSubscriber(email, world)
    \/ \E email \in Emails, world \in WriteWorlds : RemoveSubscriber(email, world)
    \/ \E create \in WriteOutcomes : GetAllSubscribers(create)

SpecSubscribers == InitSubscribers /\ [][NextSubscribers]_vars

(***************************************************************************)
(* The search client's page loop (spikes/ssi_search.py).  pages is what    *)
(* the search API answers, page by page: [kind |-> "error"] when the       *)
(* request raises (transport error, HTTP error status, body that is not    *)
(* JSON), else [kind |-> "results", results |-> organic_results].          *)
(***************************************************************************)
\* the most pages a caller asks for (the default of max_pages is 3)
MaxPages == 3

\* _deduplicate_results keeping the last result of each link
RECURSIVE deduplicate_results_keep_last(_)
deduplicate_results_keep_last(results) ==
    IF results = <<>> THEN <<>>
    ELSE LET result == Head(results)
             url == Get(result, "link", "")
             later == \E i \in 2..Len(results) : Get(results[i], "link", "") = url
         IN IF url # "" /\ ~later
            THEN <<result>> \o deduplicate_results_keep_last(Tail(results))
            ELSE deduplicate_results_keep_last(Tail(results))

\* the loop of _deduplicate_results from position i on, seen_urls so far
RECURSIVE DeduplicateFrom(_, _, _)
DeduplicateFrom(results, i, seen_urls) ==
    IF i > Len(results) THEN <<>>
    ELSE LET result == results[i]
             url == Get(result, "link", "")
         IN IF url # "" /\ url \notin seen_urls
            THEN <<result>> \o DeduplicateFrom(results, i + 1, seen_urls \cup {url})
            ELSE DeduplicateFrom(results, i + 1, seen_urls)

\* SSISearcher._deduplicate_results
_deduplicate_results(results) == DeduplicateFrom(results, 1, {})

\* the page loop going on after a page without results
RECURSIVE fetch_pages_skipping_empty(_, _, _, _, _)
fetch_pages_skipping_empty(page, max_pages, pages, all_results, requests) ==
    IF page >= max_pages THEN [all_results |-> all_results, requests |-> requests]
    ELSE LET start == page * 10
             answer == pages[page + 1]
             asked == Append(requests, start)
         IN IF answer.kind = "error"
            THEN [all_results |-> all_results, requests |-> asked]
            ELSE fetch_pages_skipping_empty(page + 1, max_pages, pages,
                                            all_results \o answer.results, asked)

\* for page in range(max_pages): the requests issued (their start values)
\* and the results collected; an empty page or a failed request ends it
RECURSIVE FetchPages(_, _, _, _, _)
FetchPages(page, max_pages, pages, all_results, requests) ==
    IF page >= max_pages THEN [all_results |-> all_results, requests |-> requests]
    ELSE LET start == page * 10
             answer == pages[page + 1]
             asked == Append(requests, start)
         IN IF answer.kind = "error" \/ answer.results = <<>>
            THEN [all_results |-> all_results, requests |-> asked]
            ELSE FetchPages(page + 1, max_pages, pages,
                            all_results \o answer.results, asked)

\* SSISearcher.search_investing_ssi_articles(max_pages)
search_investing_ssi_articles(max_pages, pages, current_date) ==
    LET fetched == FetchPages(0, max_pages, pages, <<>>, <<>>)
        unique_results == _deduplicate_results(fetched.all_results)
    IN [ret |-> _convert_relative_dates(unique_results, current_date),
        all_results |-> fetched.all_results,
        requests |-> fetched.requests]

\* the result at position i of page p: its title tells where it stood;
\* link "" is an empty link, "none" a result without a link
ResultAt(p, i, link) ==
    LET base == [title |-> <<p, i>>, date |-> AgoString(p + i, DayWord, TRUE)]
    IN IF link = "none" THEN base ELSE Put(base, "link", link)

\* what the search API answers to one request: an error, or results with
\* these links
PageChoices ==
    {[kind |-> "error", links |-> <<>>]}
    \cup {[kind |-> "results", links |-> links] :
            links \in {<<>>, <<"u1">>, <<"u2">>, <<"">>, <<"none">>, <<"u1", "u2">>,
                       <<"u1", "u1">>, <<"u2", "u1">>, <<"u1", "">>, <<"none", "u2">>}}

\* what the search API answers to the requests of one call
PageWorlds ==
    {[p \in 1..MaxPages |->
        IF choice[p].kind = "error" THEN [kind |-> "error"]
        ELSE [kind |-> "results",
              results |-> [i \in 1..Len(choice[p].links) |->
                              ResultAt(p, i, choice[p].links[i])]]] :
        choice \in [1..MaxPages -> PageChoices]}

InitSearch ==
    /\ today \in RunMonths
    /\ file = [kind |-> "missing"]
    /\ out = Idle
    /\ runs = <<>>
    /\ subscribers = [kind |-> "missing"]

\* searcher.search_investing_ssi_articles(max_pages=max_pages)
SearchArticles(max_pages, pages) ==
    LET call == search_investing_ssi_articles(max_pages, pages, MakeDay(2025, 6, 15))
    IN /\ out' = [op |-> "search_investing_ssi_articles", max_pages |-> max_pages,
                  pages |-> pages, ret |-> call.ret,
                  all_results |-> call.all_results, requests |-> call.requests]
       /\ UNCHANGED <<today, file, runs, subscribers>>

NextSearch ==
    \/ /\ out = Idle
       /\ \E max_pages \in 0..MaxPages, pages \in PageWorlds :
              SearchArticles(max_pages, pages)
    \/ /\ out # Idle
       /\ Return

SpecSearch == InitSearch /\ [][NextSearch]_vars

(***************************************************************************)
(* The scraper (spikes/ssi_scraper.py).  A page is what the web does for   *)
(* one URL: page.attempts[k] is the outcome of the k-th session.get        *)
(* ("ok": status 200, "status": another status, "exception": the request   *)
(* or the decoding raises), page.html_len is len(downloaded), page.text is *)
(* what trafilatura makes of it: kind "none" (it returns None), "raises",  *)
(* or "text" with the length of the text and of its strip().               *)
(***************************************************************************)
\* max_retries of _download_page
DefaultMaxRetries == 2

\* len(downloaded) below which scrape_articles gives the page up
MinHtmlLen == 1000

\* len(full_text.strip()) that _extract_with_trafilatura asks for
MinTextLen == 100

\* the loop of _download_page from attempt on: the content returned, None
\* after the last attempt, and the requests made
RECURSIVE DownloadFrom(_, _, _)
DownloadFrom(attempt, max_retries, page) ==
    IF attempt >= max_retries THEN [ret |-> None, gets |-> attempt]
    ELSE IF page.attempts[attempt + 1] = "ok"
    THEN [ret |-> <<[html_len |-> page.html_len, text |-> page.text]>>,
          gets |-> attempt + 1]
    ELSE DownloadFrom(attempt + 1, max_retries, page)

\* _download_page giving up after the first failed attempt
download_page_once(page, max_retries) == DownloadFrom(0, 1, page)

\* InvestingScraper._download_page(url, max_retries)
_download_page(page, max_retries) == DownloadFrom(0, max_retries, page)

\* InvestingScraper._extract_with_trafilatura: the text, None when there is
\* none or its strip() is shorter than 100
_extract_with_trafilatura(text) ==
    IF text.kind = "text" /\ text.length > 0 /\ text.stripped >= MinTextLen
    THEN <<text>> ELSE None

\* one round of the loop of scrape_articles for result: the article appended
\* (or none), the URL downloaded (or none)
ScrapeOne(result, i, web, log_ok) ==
    LET url == Get(result, "link", "")
        downloaded == _download_page(web[url], DefaultMaxRetries).ret
        full_text == _extract_with_trafilatura(downloaded[1].text)
        skipped == [articles |-> <<>>, tried |-> <<url>>]
    IN IF url = "" THEN [articles |-> <<>>, tried |-> <<>>]
       ELSE IF downloaded = None \/ downloaded[1].html_len < MinHtmlLen THEN skipped
       ELSE IF i = 1 /\ ~log_ok THEN skipped
       ELSE IF downloaded[1].text.kind = "raises" THEN skipped
       ELSE IF full_text # None /\ full_text[1].stripped > 100
       THEN [articles |-> <<[title |-> Get(result, "title", ""),
                             date |-> Get(result, "date", ""),
                             link |-> url,
                             full_text |-> full_text[1],
                             text_length |-> full_text[1].length,
                             extraction_success |-> TRUE]>>,
             tried |-> <<url>>]
       ELSE skipped

\* InvestingScraper.scrape_articles(search_results, max_articles): the list
\* returned and the URLs it tried to download, in order.  log_ok tells
\* whether the debug file of the first article can be written.
RECURSIVE InvestingScraper_scrape_articles(_, _, _, _)
InvestingScraper_scrape_articles(search_results, max_articles, web, log_ok) ==
    LET RECURSIVE From(_)
        From(i) ==
            IF i > Len(search_results) \/ i > max_articles
            THEN [articles |-> <<>>, tried |-> <<>>]
            ELSE LET one == ScrapeOne(search_results[i], i, web, log_ok)
                     rest == From(i + 1)
                 IN [articles |-> one.articles \o rest.articles,
                     tried |-> one.tried \o rest.tried]
    IN From(1)

\* a text of n characters, none of them blank at the ends
Text(n) == [kind |-> "text", length |-> n, stripped |-> n]

\* trafilatura.extract returning None, and raising
NoText == [kind |-> "none", length |-> 0, stripped |-> 0]

ExtractRaises == [kind |-> "raises", length |-> 0, stripped |-> 0]

\* what the web does for a URL
Pages ==
    {[attempts |-> <<"ok", "ok", "ok">>, html_len |-> MinHtmlLen, text |-> Text(MinTextLen + 1)],
     [attempts |-> <<"status", "ok", "ok">>, html_len |-> MinHtmlLen, text |-> Text(MinTextLen)],
     [attempts |-> <<"exception", "ok", "ok">>, html_len |-> MinHtmlLen + 1,
      text |-> [kind |-> "text", length |-> MinTextLen + 2, stripped |-> MinTextLen - 1]],
     [attempts |-> <<"exception", "status", "ok">>, html_len |-> MinHtmlLen, text |-> Text(MinTextLen + 1)],
     [attempts |-> <<"status", "exception", "status">>, html_len |-> 0, text |-> NoText],
     [attempts |-> <<"ok", "ok", "ok">>, html_len |-> MinHtmlLen - 1, text |-> Text(MinTextLen + 1)],
     [attempts |-> <<"ok", "ok", "ok">>, html_len |-> MinHtmlLen, text |-> NoText],
     [attempts |-> <<"ok", "ok", "ok">>, html_len |-> MinHtmlLen, text |-> ExtractRaises],
     [attempts |-> <<"ok", "ok", "ok">>, html_len |-> 0, text |-> NoText]}

Links == {"u1", "u2", "u3"}

Webs == [Links -> Pages]

\* the search results handed to the scraper
ResultLists ==
    LET r(n, link) == [title |-> n, link |-> link, date |-> "Jul 5, 2025"]
    IN {<<>>, <<r("t1", "u1")>>, <<r("t1", "u1"), r("t2", "u2")>>,
        <<r("t1", "u2"), r("t2", "u1"), r("t3", "u3")>>,
        <<r("t1", "u1"), r("t2", ""), r("t3", "u3")>>,
        <<[title |-> "t1"], r("t2", "u2"), r("t3", "u3")>>}

\* the most articles a caller asks for
MaxArticles == 3

InitScrape ==
    /\ today \in RunMonths
    /\ file = [kind |-> "missing"]
    /\ out = Idle
    /\ runs = <<>>
    /\ subscribers = [kind |-> "missing"]

\* scraper._download_page(url)
DownloadPage(page) ==
    LET call == _download_page(page, DefaultMaxRetries)
    IN /\ out' = [op |-> "_download_page", page |-> page, ret |-> call.ret,
                  gets |-> call.gets]
       /\ UNCHANGED <<today, file, runs, subscribers>>

\* scraper.scrape_articles(search_results, max_articles=max_articles)
ScrapeArticles(search_results, max_articles, web, log_ok) ==
    LET call == InvestingScraper_scrape_articles(search_results, max_articles, web, log_ok)
    IN /\ out' = [op |-> "scrape_articles", search_results |-> search_results,
                  max_articles |-> max_articles, web |-> web, log_ok |-> log_ok,
                  ret |-> call.articles, tried |-> call.tried]
       /\ UNCHANGED <<today, file, runs, subscribers>>

NextScrape ==
    \/ /\ out = Idle
       /\ \E page \in Pages : DownloadPage(page)
    \/ /\ out = Idle
       /\ \E search_results \in ResultLists, max_articles \in 0..MaxArticles,
             web \in Webs, log_ok \in BOOLEAN :
              ScrapeArticles(search_results, max_articles, web, log_ok)
    \/ /\ out # Idle
       /\ Return

SpecScrape == InitScrape /\ [][NextScrape]_vars

(***************************************************************************)
(* Properties.  The vocabulary below is stated on records and files        *)
(* directly, not through the operators that model the code.                *)
(***************************************************************************)
FiveFields == {"level", "date", "url", "confidence", "context"}

\* a record lacks a required field, or its level is null
Lacking(r) == (\E f \in FiveFields : f \notin DOMAIN r) \/ r.level = <<>>

\* a level within the plausible range 40-80 (in tenths)
Plausible(level) == level # <<>> /\ 400 <= level[1] /\ level[1] <= 800

\* the month mapping a cache file holds: none unless it is a JSON document
MappingOf(f) ==
    IF f.kind = "json" /\ "monthly_data" \in DOMAIN f.doc
    THEN f.doc.monthly_data ELSE EmptyDict

\* the month mapping of the cache object of the call, once it is built
CacheMapping ==
    IF out.loaded /\ "monthly_data" \in DOMAIN out.cache
    THEN out.cache.monthly_data ELSE EmptyDict

FullRecords(md) == {md[k] : k \in {kk \in DOMAIN md : ~Lacking(md[kk])}}

TargetDates == (today - WindowSize)..(today + 1)

\* the target months without a complete record in file f
MissingTargets(f) ==
    {d \in TargetDates :
        \/ strftime_Y_m(d) \notin DOMAIN MappingOf(f)
        \/ Lacking(MappingOf(f)[strftime_Y_m(d)])}

Called(name) == \E i \in 1..Len(out.calls) : out.calls[i] = name

PipelineCalls ==
    {"SSISearcher", "InvestingScraper", "SSIExtractor",
     "search_investing_ssi_articles", "scrape_articles", "extract_ssi_values"}

\* the call returned exactly the records S, as a list
ReturnsRecords(S) ==
    /\ out.ret.kind = "list"
    /\ Range(out.ret.data) = S
    /\ Len(out.ret.data) = Cardinality(S)

Fetched == out.op = "fetch_data"

CredentialNames == {"SERPAPI_KEY", "OPENAI_API_KEY"}

WithCredentials ==
    /\ Fetched
    /\ \A n \in CredentialNames : n \in DOMAIN out.environ /\ out.environ[n] # ""

NoSearchResults == Called("search_investing_ssi_articles") /\ out.world.search = <<>>

NothingScraped ==
    /\ Called("scrape_articles")
    /\ \A i \in 1..Len(out.world.search) : out.world.search[i].link \notin out.world.scraped

\* a stage of the run failed: the cache could not be read, a search request
\* raised, no page could be scraped, every model request failed, or the
\* save did not succeed
StageFailed ==
    \/ out.pre.kind \in {"unreadable", "undecodable", "not_object"}
    \/ Called("search_investing_ssi_articles") /\ out.world.search_error
    \/ NothingScraped
    \/ /\ Called("extract_ssi_values")
       /\ \A i \in 1..Len(out.world.search) :
              out.world.search[i].link \in out.world.scraped =>
                  out.world.replies[out.world.search[i].link].kind
                      \in {"exception", "not_json"}
    \/ Called("save_cache") /\ out.world.save # "ok"

\* C1: fetch_data lets no exception out (it always returns), and whenever a
\* stage fails (cache load, search, scrape, extract, merge, save) it returns
\* the best-available cached data: the valid records the cache holds then.
C1_FailureReturnsCachedData ==
    WithCredentials /\ StageFailed => ReturnsRecords(FullRecords(CacheMapping))

\* C2: with credentials and every target month holding a valid record,
\* fetch_data returns the cached records unchanged, constructs and calls
\* neither the search client nor the scraper nor the extractor, and neither
\* updates nor saves the cache.
C2_AllCachedIsNoOp ==
    WithCredentials /\ out.pre.kind = "json" /\ MissingTargets(out.pre) = {} =>
        /\ ReturnsRecords(FullRecords(MappingOf(out.pre)))
        /\ \A i \in 1..Len(out.calls) :
               out.calls[i] \notin PipelineCalls \cup {"update_cache", "save_cache"}
        /\ file = out.pre

C2_Witness ==
    /\ WithCredentials /\ out.pre.kind = "json" /\ MissingTargets(out.pre) = {}
    /\ out.ret.kind = "list" /\ Len(out.ret.data) >= WindowSize + 2
    /\ Called("get_cached_data")

\* C3: when the search returns zero results or the scraper returns no
\* article, no later stage is invoked, the cache is left unmodified, and the
\* pre-existing cached records are returned as a valid outcome.
C3_ShortCircuitReturnsCache ==
    WithCredentials /\ (NoSearchResults \/ NothingScraped) =>
        /\ NoSearchResults => ~Called("scrape_articles")
        /\ ~Called("extract_ssi_values")
        /\ ~Called("update_cache") /\ ~Called("save_cache")
        /\ file = out.pre
        /\ ReturnsRecords(FullRecords(MappingOf(out.pre)))

\* C4: when exactly one target month M lacks a record, the search returns
\* one article, its scrape succeeds, the extractor returns one valid value v
\* for M and the save succeeds, then afterwards the cache holds a record
\* under M's key with level v, exactly one record was added, every other
\* record is unchanged and the returned data includes the new record.
C4_OneMissingMonthFilled ==
    \A M \in TargetDates :
        (/\ WithCredentials /\ out.pre.kind = "json" /\ MissingTargets(out.pre) = {M}
         /\ Len(out.world.search) = 1
         /\ out.world.search[1].link \in out.world.scraped
         /\ out.world.save = "ok"
         /\ LET reply == out.world.replies[out.world.search[1].link]
            IN /\ reply.kind = "results" /\ Len(reply.results) = 1
               /\ "month" \in DOMAIN reply.results[1]
               /\ reply.results[1].month = strftime_B_Y(M)
               /\ "value" \in DOMAIN reply.results[1]
               /\ Plausible(reply.results[1].value))
        => LET key == strftime_Y_m(M)
               before == MappingOf(out.pre)
               v == out.world.replies[out.world.search[1].link].results[1].value
           IN /\ key \in DOMAIN CacheMapping
              /\ CacheMapping[key].level = v
              /\ MappingOf(file) = CacheMapping
              /\ Cardinality(FullRecords(CacheMapping))
                    = Cardinality(FullRecords(before)) + 1
              /\ \A k \in (DOMAIN before) \ {key} :
                     k \in DOMAIN CacheMapping /\ CacheMapping[k] = before[k]
              /\ out.ret.kind = "list"
              /\ CacheMapping[key] \in Range(out.ret.data)

\* C5: if SERPAPI_KEY or OPENAI_API_KEY is unset or empty, fetch_data reports
\* the configuration error and returns None before any call to the cache or
\* the network, and the cache file is as it was.
C5_MissingCredentialAborts ==
    Fetched /\ (\E n \in CredentialNames :
                    n \notin DOMAIN out.environ \/ out.environ[n] = "") =>
        /\ out.ret = NoneResult
        /\ out.calls = <<>>
        /\ file = out.pre
        /\ out.log = "Missing required environment variables"

C5_Witness ==
    /\ Fetched /\ out.pre.kind = "json" /\ MappingOf(out.pre) # EmptyDict
    /\ "SERPAPI_KEY" \in DOMAIN out.environ /\ out.environ["SERPAPI_KEY"] = ""
    /\ "OPENAI_API_KEY" \in DOMAIN out.environ /\ out.environ["OPENAI_API_KEY"] # ""
    /\ out.ret = NoneResult

\* C6: a stored record that lacks one of level, date, url, confidence,
\* context, or whose level is null, is in no result of get_cached_data (of
\* the cache object or of the module), and a target month whose key holds
\* such a record is reported missing by get_missing_months.
C6_InvalidRecordsInvisible ==
    /\ out.op \in {"fetch_data", "get_cached_data"} /\ out.ret.kind = "list" =>
           \A i \in 1..Len(out.ret.data) : ~Lacking(out.ret.data[i])
    /\ Fetched /\ out.loaded =>
           \A d \in TargetDates :
               (/\ strftime_Y_m(d) \in DOMAIN MappingOf(out.pre)
                /\ Lacking(MappingOf(out.pre)[strftime_Y_m(d)]))
               => strftime_B_Y(d) \in Range(out.missing)

C6_Witness ==
    /\ Fetched /\ out.loaded
    /\ out.ret.kind = "list" /\ Len(out.ret.data) >= 1
    /\ strftime_Y_m(today) \in DOMAIN MappingOf(out.pre)
    /\ MappingOf(out.pre)[strftime_Y_m(today)].level = <<>>
    /\ strftime_Y_m(today - 1) \in DOMAIN MappingOf(out.pre)
    /\ "url" \notin DOMAIN MappingOf(out.pre)[strftime_Y_m(today - 1)]
    /\ strftime_B_Y(today) \in Range(out.missing)

\* every record of a file is complete and its level plausible
AllPlausible(md) == \A k \in DOMAIN md : ~Lacking(md[k]) /\ Plausible(md[k].level)

\* C7 as stated: after a cache operation (cache_data, fetch_data, with their
\* load, update_cache and save_cache) on a cache whose records are all
\* complete with a level within 40-80, every stored record is again complete
\* with a non-null level within 40-80.
C7_EveryStoredRecordPlausible ==
    out.op \in {"fetch_data", "cache_data"} /\ AllPlausible(MappingOf(out.pre)) =>
        AllPlausible(MappingOf(file)) /\ AllPlausible(CacheMapping)

\* C7 as amended: every record that fetch_data merges into the cache (a key
\* it adds, or whose record it replaces) has all required fields and a
\* non-null level within 40-80, and its date is the key it is stored under.
C7_FetchedRecordsPlausible ==
    Fetched /\ out.loaded =>
        \A k \in DOMAIN CacheMapping :
            (k \notin DOMAIN MappingOf(out.pre) \/ CacheMapping[k] # MappingOf(out.pre)[k])
            => /\ ~Lacking(CacheMapping[k])
               /\ Plausible(CacheMapping[k].level)
               /\ CacheMapping[k].date = k

C7_Witness ==
    /\ Fetched /\ out.loaded /\ Called("update_cache")
    /\ \E k \in DOMAIN CacheMapping :
           /\ k \in DOMAIN MappingOf(out.pre)
           /\ CacheMapping[k] # MappingOf(out.pre)[k]
           /\ CacheMapping[k].level = <<400>>

\* the places of the list handed to update_cache whose date is k
PlacesOf(k) ==
    {i \in 1..Len(out.data) : "date" \in DOMAIN out.data[i] /\ out.data[i].date = k}

LastPlace(S) == CHOOSE i \in S : \A j \in S : j <= i

FieldOr(entry, f, default) == IF f \in DOMAIN entry THEN entry[f] ELSE default

\* the fields update_cache takes from a record, with the value it stores
\* for a field the record lacks
FieldDefaults ==
    [level |-> <<>>, url |-> "", confidence |-> "medium", context |-> "",
     reasoning |-> ""]

\* C8: after update_cache(records), for every month key that is the date of
\* some record of the list, the entry under that key carries the level, url,
\* confidence, context and reasoning of the last such record (a field the
\* record lacks at its default), whatever was stored there before.
C8_LastWriteWins ==
    out.op = "cache_data" /\ out.loaded =>
        \A i \in 1..Len(out.data) :
            "date" \in DOMAIN out.data[i] =>
                LET k == out.data[i].date
                    last == out.data[LastPlace(PlacesOf(k))]
                IN /\ k \in DOMAIN CacheMapping
                   /\ \A f \in DOMAIN FieldDefaults :
                          /\ f \in DOMAIN CacheMapping[k]
                          /\ CacheMapping[k][f] = FieldOr(last, f, FieldDefaults[f])

C8_Witness ==
    /\ out.op = "cache_data" /\ out.loaded /\ Len(out.data) = 2
    /\ out.data[1].date = out.data[2].date
    /\ out.data[1].date \in DOMAIN MappingOf(out.pre)
    /\ MappingOf(out.pre)[out.data[1].date].confidence = "high"
    /\ CacheMapping[out.data[1].date].confidence = "low"
    /\ CacheMapping[out.data[1].date].level = <<850>>

\* the dates whose label or key the month-key utility is asked about
UtilityDates == (today - MaxWindow - 1)..(today + 2)

C10_MonthKeyRoundTrip ==
    out.op = "_month_to_key" =>
        \A d \in UtilityDates :
            out.month_str = strftime_B_Y(d) => out.ret = strftime_Y_m(d)

C10_Witness ==
    /\ out.op = "_month_to_key"
    /\ \E d \in UtilityDates :
           /\ DateMonth(d) < 10
           /\ out.month_str = strftime_B_Y(d)
           /\ out.ret = strftime_Y_m(d)

\* C11: get_missing_months is idempotent and read-only: a call leaves the
\* in-memory cache of the object as it was, and a call with the same targets
\* as the call before it, with no update_cache in between, returns the same
\* list.
C11_MissingMonthsIdempotent ==
    out.op = "get_missing_months" =>
        /\ out.after = out.before
        /\ runs[out.run].cache_data = out.before
        /\ (out.asked # <<>> /\ out.asked[1].target_months = out.target_months)
               => out.ret = out.asked[1].ret

C11_Witness ==
    /\ out.op = "get_missing_months"
    /\ out.asked # <<>>
    /\ out.asked[1].target_months = out.target_months
    /\ Len(out.ret) >= 2
    /\ Len(out.ret) < Len(out.target_months)
    /\ \E k \in DOMAIN MappingOf([kind |-> "json", doc |-> out.before]) :
           Lacking(out.before.monthly_data[k])

\* the result handed to the extractor has a month and a value
HasMonthAndValue ==
    /\ out.op = "extract_ssi_values"
    /\ "month" \in DOMAIN out.result /\ out.result.month # <<>>
    /\ "value" \in DOMAIN out.result /\ out.result.value # <<>>

\* the extractor kept the result as an extraction / put it among the discarded
Accepted ==
    /\ Len(out.ret.extractions) = 1
    /\ out.ret.extractions[1].level = out.result.value
    /\ out.ret.extractions[1].month = out.result.month
    /\ out.ret.discarded_results = <<>>

Discarded ==
    /\ out.ret.extractions = <<>>
    /\ Len(out.ret.discarded_results) = 1
    /\ out.ret.discarded_results[1].value = out.result.value

\* C12: the extraction range filter is inclusive on both ends: a model
\* result with a month and a value v is accepted iff 40 <= v <= 80, and is
\* discarded otherwise; 40.0 and 80.0 are accepted, 39.9 and 80.1 are not.
C12_RangeFilterInclusive ==
    HasMonthAndValue =>
        LET v == out.result.value[1]
        IN /\ Accepted <=> (400 <= v /\ v <= 800)
           /\ Discarded <=> ~(400 <= v /\ v <= 800)
           /\ v \in {400, 800} => Accepted
           /\ v \in {399, 801} => Discarded

C12_Witness ==
    /\ HasMonthAndValue
    /\ out.result.value = <<800>>
    /\ Accepted

\* the converted i-th result carries the date of day z, keeps the original
\* string in original_date, and its other fields
ConvertedTo(i, z) ==
    /\ out.ret[i].date = strftime_b_d_Y(z)
    /\ out.ret[i].original_date = out.results[i].date
    /\ out.ret[i].title = out.results[i].title
    /\ out.ret[i].link = out.results[i].link

\* C13: relative to the current date, "N day(s) ago" becomes now minus N
\* days, "N week(s) ago" now minus 7N days, "N month(s) ago" now minus 30N
\* days, "yesterday" now minus one day and "today" now; with now =
\* 2025-06-15, "3 days ago" gives June 12, "2 weeks ago" June 1 and
\* "yesterday" June 14, 2025; the original string is kept in a side field,
\* and a date string that matches no pattern is left untouched.
C13_RelativeDates ==
    out.op = "_convert_relative_dates" =>
        /\ Len(out.ret) = Len(out.results)
        /\ \A i \in 1..Len(out.results) :
              LET r == out.results[i]
                  now == out.current_date
              IN /\ "date" \notin DOMAIN r => out.ret[i] = r
                 /\ "date" \in DOMAIN r =>
                       /\ \A n \in 1..MaxAgo, plural \in BOOLEAN :
                             /\ r.date = AgoString(n, DayWord, plural)
                                    => ConvertedTo(i, now - n)
                             /\ r.date = AgoString(n, WeekWord, plural)
                                    => ConvertedTo(i, now - 7 * n)
                             /\ r.date = AgoString(n, MonthWord, plural)
                                    => ConvertedTo(i, now - 30 * n)
                       /\ r.date = YesterdayWord => ConvertedTo(i, now - 1)
                       /\ r.date = TodayWord => ConvertedTo(i, now)
                       /\ r.date \in PlainStrings \cup {<<>>} => out.ret[i] = r
                       /\ now = MakeDay(2025, 6, 15) =>
                             /\ r.date = <<"3", " ", "d", "a", "y", "s", " ", "a", "g", "o">> => out.ret[i].date = <<"J", "u", "n", " ", "1", "2", ",", " ", "2", "0", "2", "5">>
                             /\ r.date = <<"2", " ", "w", "e", "e", "k", "s", " ", "a", "g", "o">> => out.ret[i].date = <<"J", "u", "n", " ", "0", "1", ",", " ", "2", "0", "2", "5">>
                             /\ r.date = YesterdayWord => out.ret[i].date = <<"J", "u", "n", " ", "1", "4", ",", " ", "2", "0", "2", "5">>

C13_Witness ==
    /\ out.op = "_convert_relative_dates"
    /\ out.current_date = MakeDay(2025, 6, 15)
    /\ Len(out.results) = 3
    /\ out.results[3].date = <<"2", " ", "w", "e", "e", "k", "s", " ", "a", "g", "o">>
    /\ out.ret[3].date = <<"J", "u", "n", " ", "0", "1", ",", " ", "2", "0", "2", "5">>
    /\ out.ret[3].original_date = <<"2", " ", "w", "e", "e", "k", "s", " ", "a", "g", "o">>
    /\ out.ret[2] = out.results[2]

\* C14: overlapping runs on one cache file are not isolated.  A save writes
\* the whole file from the saving run's own in-memory cache, without looking
\* at what the file holds by then: after a successful save the file is that
\* cache, and a month stored in the file since the run loaded it is gone.
\* (The lost update itself is the state C14_Witness.)
C14_SaveOverwritesWholeFile ==
    (out.op = "save_cache" /\ runs[out.run].wrote) =>
        /\ file = [kind |-> "json", doc |-> runs[out.run].cache_data]
        /\ \A k \in DOMAIN MappingOf(out.pre) :
               k \notin DOMAIN runs[out.run].cache_data.monthly_data
                   => k \notin DOMAIN MappingOf(file)

\* both runs have merged and saved successfully, and a month that run 1
\* merged and saved is absent from the final file
C14_Witness ==
    /\ Len(runs) = 2
    /\ \A r \in 1..2 : runs[r].pc = "saved" /\ runs[r].wrote
    /\ \E k \in runs[1].merged :
           /\ k \in DOMAIN runs[1].cache_data.monthly_data
           /\ ~Lacking(runs[1].cache_data.monthly_data[k])
           /\ k \notin DOMAIN MappingOf(file)

\* the entries of the subscriber store, if it is a JSON document
StoredSubscribers(f) == IF f.kind = "json" THEN f.doc.subscribers ELSE <<>>

\* an address trimmed and in lower case
Normalised(email) == lower(strip(email))

\* C15: after any sequence of add_subscriber and remove_subscriber calls the
\* stored list holds no two entries with the same normalised (trimmed,
\* lower-cased) email; adding an email that is already subscribed, in any
\* letter case or with blanks around it, fails with "already subscribed" and
\* leaves the list unchanged.
C15_NoDuplicateSubscribers ==
    /\ \A i, j \in 1..Len(StoredSubscribers(subscribers)) :
           i # j => Normalised(StoredSubscribers(subscribers)[i].email)
                        # Normalised(StoredSubscribers(subscribers)[j].email)
    /\ (/\ out.op = "add_subscriber"
        /\ \E i \in 1..Len(StoredSubscribers(out.pre)) :
               Normalised(StoredSubscribers(out.pre)[i].email) = Normalised(out.email))
       => /\ out.ret.success = FALSE
          /\ out.ret.message = "Email address is already subscribed"
          /\ subscribers = out.pre

C15_Witness ==
    /\ out.op = "add_subscriber"
    /\ out.email = <<"A", "@", "X", ".", "i", "o">>
    /\ Len(StoredSubscribers(out.pre)) = 2
    /\ StoredSubscribers(out.pre)[2].email = <<"a", "@", "x", ".", "i", "o">>
    /\ out.ret.message = "Email address is already subscribed"
    /\ subscribers = out.pre

\* C16: after any sequential series of add_subscriber and remove_subscriber
\* calls starting from an empty store, get_all_subscribers returns exactly
\* the emails whose most recent successful operation was an add; removing an
\* email that is not stored fails with a "not found" result and changes
\* nothing.
C16_SubscribersAreLastAdded ==
    /\ out.op = "get_all_subscribers" =>
           /\ Range(out.ret) = out.added
           /\ Len(out.ret) = Cardinality(out.added)
    /\ (/\ out.op = "remove_subscriber"
        /\ validate_email(out.email).valid
        /\ \A i \in 1..Len(StoredSubscribers(out.pre)) :
               StoredSubscribers(out.pre)[i].email # Normalised(out.email))
       => /\ out.ret.success = FALSE
          /\ out.ret.message = "Email address not found in subscribers"
          /\ StoredSubscribers(subscribers) = StoredSubscribers(out.pre)

\* the caching of a cache_data call failed: the directory could not be made,
\* the cache could not be loaded, or the cache file could not be written
CachingFailed ==
    \/ out.save # "ok"
    \/ out.pre.kind \in {"unreadable", "undecodable", "not_object"}

\* C17: cache_data(data) merges the data into the cache and saves it,
\* calling update_cache once and then save_cache once, and returns True;
\* when caching fails, including a failure to write the cache file, it
\* returns False without raising.
C17_CacheDataReportsFailure ==
    out.op = "cache_data" =>
        /\ out.ret \in BOOLEAN
        /\ ~CachingFailed =>
              /\ out.ret = TRUE
              /\ out.calls = <<"SSICache", "update_cache", "save_cache">>
              /\ file = [kind |-> "json", doc |-> out.cache]
        /\ CachingFailed => out.ret = FALSE

\* the valid values the extractor of the run returns for target months: the
\* pairs <<d, v>> of a target month d and a plausible value v that the reply
\* for a scraped article names for d
TargetExtractions ==
    {p \in TargetDates \X {<<v>> : v \in 400..800} :
        \E i \in 1..Len(out.world.search) :
            LET link == out.world.search[i].link
            IN /\ link \in out.world.scraped
               /\ out.world.replies[link].kind = "results"
               /\ \E j \in 1..Len(out.world.replies[link].results) :
                      LET e == out.world.replies[link].results[j]
                      IN /\ "month" \in DOMAIN e /\ e.month = strftime_B_Y(p[1])
                         /\ "value" \in DOMAIN e /\ e.value = p[2]}

\* C18: every valid extraction whose month is a target month (one of the N
\* past months, the current month or the next month) is stored under that
\* month's key; hence when the extractor returns valid values for all
\* missing target months and the save succeeds, no target month is missing
\* in the cache file after the run, so that the next run on the same date
\* is the no-op steady state.
C18_TargetExtractionsMerged ==
    (WithCredentials /\ Called("extract_ssi_values") /\ out.world.save = "ok"
     /\ out.pre.kind = "json") =>
        /\ \A d \in TargetDates :
               (\E p \in TargetExtractions : p[1] = d) =>
                   /\ strftime_Y_m(d) \in DOMAIN CacheMapping
                   /\ \E p \in TargetExtractions :
                          p[1] = d /\ CacheMapping[strftime_Y_m(d)].level = p[2]
        /\ (\A d \in MissingTargets(out.pre) : \E p \in TargetExtractions : p[1] = d)
               => MissingTargets(file) = {}

\* the calls of the run that are pipeline stages or cache reads and writes,
\* in the order the run made them
StageNames ==
    {"SSICache", "search_investing_ssi_articles", "scrape_articles",
     "extract_ssi_values", "update_cache", "save_cache"}

StageCalls == SelectSeq(out.calls, LAMBDA name : name \in StageNames)

StageOrder ==
    <<"SSICache", "search_investing_ssi_articles", "scrape_articles",
      "extract_ssi_values", "update_cache", "save_cache">>

\* the extractions the extraction stage of the run returned
RunExtractions ==
    extract_ssi_values(scrape_articles(out.world.search, out.world.scraped),
                       out.world.replies).extractions

\* C19: in a single run the stages execute in the strict order search,
\* scrape, extract, merge, save; the cache file is read once, first of all,
\* and written at most once, and only after the three stages completed and
\* the extraction returned at least one valid extraction.
C19_StagesInOrder ==
    out.op = "fetch_data" =>
        /\ StageCalls = SubSeq(StageOrder, 1, Len(StageCalls))
        /\ file # out.pre => Called("save_cache")
        /\ Called("save_cache") =>
              /\ Len(StageCalls) = Len(StageOrder)
              /\ out.world.search # <<>>
              /\ scrape_articles(out.world.search, out.world.scraped) # <<>>
              /\ RunExtractions # <<>>

C19_Witness ==
    /\ out.op = "fetch_data"
    /\ Called("save_cache")
    /\ file # out.pre
    /\ RunExtractions # <<>>

\* the files that are missing or whose content cannot be parsed: no file,
\* text that is not JSON, bytes that are not text
UnparsedKinds == {"missing", "corrupt", "undecodable"}

\* C20: loading the cache never fails the run: when the cache file is
\* missing or its content cannot be parsed, constructing the cache does not
\* raise and the cache starts with an empty month mapping, so that every
\* target month is reported missing.
C20_LoadNeverFails ==
    /\ (out.op = "SSICache" /\ out.pre.kind \in UnparsedKinds) =>
           /\ ~out.raised
           /\ runs[out.run].pc = "loaded"
           /\ runs[out.run].cache_data.monthly_data = EmptyDict
    /\ (out.op = "get_missing_months" /\ runs[out.run].pc = "loaded"
        /\ file.kind \in UnparsedKinds) =>
           out.ret = out.target_months

\* C21: save_cache never propagates a persistence failure to its caller:
\* when the save fails the call returns normally, and the in-memory mapping
\* is unchanged and answers get_cached_data and get_missing_months exactly
\* as before the failed save.
C21_SaveNeverPropagates ==
    (out.op = "save_cache" /\ out.outcome # "ok") =>
        /\ ~out.raised
        /\ runs[out.run].cache_data = out.before
        /\ get_cached_data(runs[out.run].cache_data) = get_cached_data(out.before)
        /\ \A target_months \in TargetLists(today) :
               get_missing_months(runs[out.run].cache_data, target_months)
                   = get_missing_months(out.before, target_months)

\* C22: saving the cache is atomic: after a save, including one that fails
\* or is interrupted part-way, the cache file is either the file found
\* before the save or the complete new document, never a truncated or
\* partially written one.
C22_SaveIsAtomic ==
    out.op = "save_cache" =>
        \/ file = out.pre
        \/ file = [kind |-> "json", doc |-> out.before]

\* the month a target label names
LabelDate(label) == CHOOSE d \in UtilityDates : strftime_B_Y(d) = label

\* the YYYY-MM key of month d holds a record with the five required fields
\* and a level
KeyHoldsValidRecord(cd, d) ==
    LET md == Get(cd, "monthly_data", EmptyDict)
    IN strftime_Y_m(d) \in DOMAIN md /\ ~Lacking(md[strftime_Y_m(d)])

\* C23: get_missing_months(targets) returns, in the order of targets,
\* exactly the target labels whose YYYY-MM storage key has no valid record;
\* a target month whose key holds a valid record is never reported missing.
C23_MissingMonthsExact ==
    out.op = "get_missing_months" =>
        out.ret = SelectSeq(out.target_months,
                            LAMBDA m : ~KeyHoldsValidRecord(out.before, LabelDate(m)))

C23_Witness ==
    /\ out.op = "get_missing_months"
    /\ Len(out.target_months) >= 3
    /\ Len(out.ret) = 2
    /\ \E i \in 1..Len(out.target_months) :
           KeyHoldsValidRecord(out.before, LabelDate(out.target_months[i]))
    /\ \E i \in 1..Len(out.ret) :
           strftime_Y_m(LabelDate(out.ret[i]))
               \in DOMAIN Get(out.before, "monthly_data", EmptyDict)

\* the month mapping of an in-memory cache
MonthsOf(cd) == Get(cd, "monthly_data", EmptyDict)

\* the dates of the records of a list
DatesOf(new_data) ==
    {new_data[i].date : i \in {j \in 1..Len(new_data) : "date" \in DOMAIN new_data[j]}}

\* C24: a stored month record changes only by being replaced as a whole by
\* an update for the same month key: update_cache leaves every entry whose
\* key is not the date of a new record unchanged, a replaced record owes
\* nothing to the record it replaces, and update_cache with an empty list
\* changes nothing in the cache, last_updated included.
C24_RecordsReplacedWhole ==
    out.op = "update_cache" =>
        LET before == MonthsOf(out.before)
            after == MonthsOf(runs[out.run].cache_data)
            alone == MonthsOf(update_cache(FreshCache, out.new_data))
        IN /\ DOMAIN after = (DOMAIN before) \cup DatesOf(out.new_data)
           /\ \A k \in (DOMAIN before) \ DatesOf(out.new_data) : after[k] = before[k]
           /\ \A k \in DatesOf(out.new_data) : after[k] = alone[k]
           /\ out.new_data = <<>> => runs[out.run].cache_data = out.before

C24_Witness ==
    /\ out.op = "update_cache"
    /\ \E k \in DatesOf(out.new_data) :
           /\ k \in DOMAIN MonthsOf(out.before)
           /\ MonthsOf(out.before)[k] # MonthsOf(runs[out.run].cache_data)[k]
           /\ Get(MonthsOf(out.before)[k], "context", "")
                  # MonthsOf(runs[out.run].cache_data)[k].context
    /\ \E k \in DOMAIN MonthsOf(out.before) : k \notin DatesOf(out.new_data)

\* the link of a result, "" when it has none
LinkOf(result) == Get(result, "link", "")

\* the position in the collected results from which returned result i comes:
\* the title of a result tells its page and its rank
CollectedAt(i) ==
    CHOOSE j \in 1..Len(out.all_results) : out.all_results[j].title = out.ret[i].title

\* C25: the search client's result list contains no two results with the
\* same link: each URL of the fetched pages appears once, the result kept
\* for it is its first occurrence, and the kept results stand in first-seen
\* order.
C25_ResultsDeduplicated ==
    out.op = "search_investing_ssi_articles" =>
        /\ \A i, j \in 1..Len(out.ret) : LinkOf(out.ret[i]) = LinkOf(out.ret[j]) => i = j
        /\ {LinkOf(out.ret[i]) : i \in 1..Len(out.ret)}
               = {LinkOf(out.all_results[j]) : j \in 1..Len(out.all_results)} \ {""}
        /\ \A i \in 1..Len(out.ret) :
               \A j \in 1..Len(out.all_results) :
                   LinkOf(out.all_results[j]) = LinkOf(out.ret[i]) => CollectedAt(i) <= j
        /\ \A i, j \in 1..Len(out.ret) : i < j => CollectedAt(i) < CollectedAt(j)

C25_Witness ==
    /\ out.op = "search_investing_ssi_articles"
    /\ Len(out.ret) = 2
    /\ Len(out.all_results) >= 4
    /\ \E j, k \in 1..Len(out.all_results) :
           /\ j < k
           /\ LinkOf(out.all_results[j]) = LinkOf(out.all_results[k])
           /\ LinkOf(out.all_results[j]) # ""
           /\ out.all_results[j].title[1] # out.all_results[k].title[1]

\* page p of the call answered with at least one result
PageHasResults(p) == out.pages[p].kind = "results" /\ out.pages[p].results # <<>>

\* the results of the first n pages, in order
RECURSIVE ResultsOfPages(_)
ResultsOfPages(n) ==
    IF n = 0 THEN <<>> ELSE ResultsOfPages(n - 1) \o out.pages[n].results

\* C26: search_investing_ssi_articles issues at most max_pages page
\* requests, in increasing page order (start = 0, 10, 20, ...); after the
\* first page that returns zero results or whose request fails no further
\* request is issued, and the results of the pages fetched before it are
\* still returned.
C26_PageRequestsStopEarly ==
    out.op = "search_investing_ssi_articles" =>
        LET n == Len(out.requests)
            good == IF n > 0 /\ PageHasResults(n) THEN n ELSE n - 1
        IN /\ n <= out.max_pages
           /\ \A i \in 1..n : out.requests[i] = (i - 1) * 10
           /\ \A i \in 1..(n - 1) : PageHasResults(i)
           /\ n < out.max_pages => ~PageHasResults(n)
           /\ n > 0 =>
                 /\ out.all_results = ResultsOfPages(good)
                 /\ {LinkOf(out.ret[i]) : i \in 1..Len(out.ret)}
                        = {LinkOf(out.all_results[j]) : j \in 1..Len(out.all_results)} \ {""}

C26_Witness ==
    /\ out.op = "search_investing_ssi_articles"
    /\ out.max_pages = 3
    /\ out.requests = <<0, 10>>
    /\ out.pages[2].kind = "error"
    /\ PageHasResults(3)
    /\ Len(out.ret) = 2

\* the attempts of the download that failed: another status or an exception
FailedAttempt(k) == out.page.attempts[k] \in {"status", "exception"}

\* C27: for each URL the scraper makes at most 2 download attempts: it
\* returns the content of the first attempt that yields HTTP 200, retries
\* after a non-200 status or an exception while attempts remain, and after
\* the second failed attempt abandons the URL (returns no content) without
\* raising.
C27_TwoDownloadAttempts ==
    out.op = "_download_page" =>
        /\ out.gets \in 1..2
        /\ \A k \in 1..(out.gets - 1) : FailedAttempt(k)
        /\ out.ret # None =>
              /\ out.page.attempts[out.gets] = "ok"
              /\ out.ret = <<[html_len |-> out.page.html_len, text |-> out.page.text]>>
        /\ out.ret = None => (out.gets = 2 /\ FailedAttempt(1) /\ FailedAttempt(2))

C27_Witness ==
    /\ out.op = "_download_page"
    /\ out.gets = 2
    /\ out.page.attempts = <<"status", "exception", "status">>
    /\ out.ret = None

\* result i of the call was downloaded: it has a URL and one of the two
\* attempts for it yields HTTP 200
Downloaded(i) ==
    LET url == LinkOf(out.search_results[i])
    IN url # "" /\ \E k \in 1..2 : out.web[url].attempts[k] = "ok"

\* the text extracted from the page of result i has at least n characters
TextAtLeast(i, n) ==
    LET text == out.web[LinkOf(out.search_results[i])].text
    IN text.kind = "text" /\ text.stripped >= n

\* the positions among the first max_articles results that pass
Kept(Passes(_)) ==
    {i \in 1..Len(out.search_results) : i <= out.max_articles /\ Passes(i)}

\* the links of the results at the positions S, in input order
RECURSIVE LinksAt(_, _)
LinksAt(S, i) ==
    IF i > Len(out.search_results) THEN <<>>
    ELSE (IF i \in S THEN <<LinkOf(out.search_results[i])>> ELSE <<>>) \o LinksAt(S, i + 1)

\* C28: scrape_articles returns, in input order, exactly those of the
\* first max_articles search results that were downloaded and whose
\* extracted text has at least 100 characters; an article that fails is
\* skipped without aborting the batch, and every later article is still
\* attempted.
C28_ScrapedArticlesExact ==
    out.op = "scrape_articles" =>
        /\ [i \in 1..Len(out.ret) |-> out.ret[i].link]
               = LinksAt(Kept(LAMBDA i : Downloaded(i) /\ TextAtLeast(i, 100)), 1)
        /\ out.tried = LinksAt(Kept(LAMBDA i : LinkOf(out.search_results[i]) # ""), 1)

\* the entries the model returned for the article with this link
EntriesFor(link) ==
    IF out.replies[link].kind = "results" THEN out.replies[link].results ELSE <<>>

\* an entry with a month, a value and 40 <= value <= 80
ValidEntry(e) ==
    /\ "json" \notin DOMAIN e
    /\ Get(e, "month", <<>>) # <<>>
    /\ Get(e, "value", <<>>) # <<>>
    /\ Len(e.value) = 1
    /\ 400 <= e.value[1] /\ e.value[1] <= 800

\* handling the article with this link raises: the request fails, the
\* response is not JSON, or an entry's value cannot be compared
HandlingRaises(link) ==
    \/ out.replies[link].kind \in {"exception", "not_json"}
    \/ \E i \in 1..Len(EntriesFor(link)) :
           LET e == EntriesFor(link)[i]
           IN "json" \notin DOMAIN e /\ Get(e, "month", <<>>) # <<>>
              /\ Len(Get(e, "value", <<>>)) = 2

\* how many elements of a sequence satisfy a test
Count(seq, Test(_)) == Cardinality({i \in 1..Len(seq) : Test(seq[i])})

\* C29: extract_ssi_values issues exactly one model request per scraped
\* article, in list order; a malformed response or an exception while
\* handling one article never prevents a later article from being
\* processed: the valid extractions of the other articles are returned, and
\* total_processed counts the articles handled without exception.
C29_ArticleFailuresIsolated ==
    out.op = "extract_batch" =>
        /\ out.ret.requests
               = [i \in 1..Len(out.scraped_articles) |-> out.scraped_articles[i].link]
        /\ out.ret.total_processed
               = Count(out.scraped_articles, LAMBDA a : ~HandlingRaises(a.link))
        /\ \A i \in 1..Len(out.scraped_articles) :
               LET link == out.scraped_articles[i].link
               IN ~HandlingRaises(link) =>
                      Count(out.ret.extractions, LAMBDA x : x.source_url = link)
                          = Count(EntriesFor(link), ValidEntry)

C29_Witness ==
    /\ out.op = "extract_batch"
    /\ Len(out.scraped_articles) = 2
    /\ out.replies[out.scraped_articles[1].link].kind = "not_json"
    /\ out.ret.total_processed = 1
    /\ Len(out.ret.extractions) = 1
    /\ Len(out.ret.discarded_results) = 2
    /\ out.ret.requests = <<"u2", "u1">>

\* the reason of the first check an invalid entry fails
ExpectedReason(e) ==
    IF "json" \in DOMAIN e \/ Get(e, "month", <<>>) = <<>> THEN "Missing month"
    ELSE IF Get(e, "value", <<>>) = <<>> THEN "Missing value"
    ELSE "Value outside valid range (40-80%)"

\* what the discard list should hold for an invalid entry
ExpectedDiscard(e) ==
    [month |-> IF "json" \in DOMAIN e THEN <<>> ELSE Get(e, "month", <<>>),
     value |-> IF "json" \in DOMAIN e THEN <<>> ELSE Get(e, "value", <<>>),
     reason |-> ExpectedReason(e)]

\* the elements of a sequence that satisfy a test, mapped
Selected(seq, Test(_), Map(_)) ==
    LET kept == SelectSeq(seq, Test)
    IN [i \in 1..Len(kept) |-> Map(kept[i])]

\* C30: every entry the model returns for an article ends up in exactly one
\* of the two outputs: in the valid extractions iff it has a month, a value
\* and 40 <= value <= 80, otherwise in the discard list with the reason of
\* the first failed check; no invalid entry is raised as an error.
C30_EveryEntryClassified ==
    out.op = "extract_batch" =>
        \A i \in 1..Len(out.scraped_articles) :
            LET link == out.scraped_articles[i].link
            IN /\ Selected(out.ret.extractions, LAMBDA x : x.source_url = link,
                           LAMBDA x : <<x.month, x.level>>)
                      = Selected(EntriesFor(link), ValidEntry,
                                 LAMBDA e : <<e.month, e.value>>)
               /\ Selected(out.ret.discarded_results, LAMBDA d : d.source_url = link,
                           LAMBDA d : [month |-> d.month, value |-> d.value,
                                       reason |-> d.reason])
                      = Selected(EntriesFor(link), LAMBDA e : ~ValidEntry(e),
                                 ExpectedDiscard)

====
